---- MODULE Spec2Model ----
(***************************************************************************)
(* Symptom-timeline analysis of AI-Doctor-Assistant:                       *)
(*   backend/app/services/timeline_analysis_service.py                     *)
(*       SymptomTimelineAnalyzer (sort, six detectors, risk aggregator,    *)
(*       recommendation generator, report)                                 *)
(*   backend/app/services/specialized_medical_service.py                   *)
(*       SpecializedMedicalService.symptom_timeline_analysis and           *)
(*       _call_specialized_model (the narrative collaborator)              *)
(*                                                                         *)
(* Conventions.  A datetime is an integer number of quarter hours; a       *)
(* timedelta total_seconds()/3600 <= h is written ticks <= 4*h.  Integers  *)
(* are kept below 2^31.  Optional[T] is <<>> (None) or <<v>>.  A float that the code computes by a division is  *)
(* kept as the exact fraction <<numerator, denominator>>, so thresholds    *)
(* are compared by cross-multiplication.  A Python list is a sequence, a   *)
(* dict is the sequence of its keys in insertion order plus a lookup.      *)
(***************************************************************************)
EXTENDS Integers, Sequences, FiniteSets, TLC

(***************************************************************************)
(* Bounds of the model                                                     *)
(***************************************************************************)
\* longest timeline a caller submits
MaxLen == 3
\* latest reading of the wall clock (datetime.utcnow)
MaxClock == 1

(***************************************************************************)
(* Python values                                                           *)
(***************************************************************************)
None == <<>>
Some(v) == <<v>>
IsNone(o) == o = <<>>
Val(o) == o[1]

\* truthiness of an Optional[int]: None and 0 are falsy
Truthy(o) == o # <<>> /\ o[1] # 0

Min(a, b) == IF a <= b THEN a ELSE b
Abs(a) == IF a < 0 THEN 0 - a ELSE a

RECURSIVE Sum(_)
Sum(s) == IF s = <<>> THEN 0 ELSE s[1] + Sum(Tail(s))

RECURSIVE MaxOf(_)
MaxOf(s) == IF Len(s) = 1 THEN s[1]
            ELSE LET m == MaxOf(Tail(s)) IN IF s[1] >= m THEN s[1] ELSE m

RECURSIVE MinOf(_)
MinOf(s) == IF Len(s) = 1 THEN s[1]
            ELSE LET m == MinOf(Tail(s)) IN IF s[1] <= m THEN s[1] ELSE m

\* [f(x) for x in s]
RECURSIVE Map(_, _)
Map(F(_), s) == IF s = <<>> THEN <<>> ELSE <<F(s[1])>> \o Map(F, Tail(s))

\* [x for x in s if P(x)]
RECURSIVE Filter(_, _)
Filter(P(_), s) == IF s = <<>> THEN <<>>
                   ELSE (IF P(s[1]) THEN <<s[1]>> ELSE <<>>) \o Filter(P, Tail(s))

\* x in s, for a list s
InList(x, s) == \E k \in 1..Len(s) : s[k] = x

\* the keys of a dict filled in the order of s: first occurrences, in order
RECURSIVE Distinct(_)
Distinct(s) == IF s = <<>> THEN <<>>
               ELSE LET d == Distinct(SubSeq(s, 1, Len(s) - 1))
                        x == s[Len(s)]
                    IN  IF InList(x, d) THEN d ELSE Append(d, x)

\* s[-n:]
LastN(s, n) == IF Len(s) <= n THEN s ELSE SubSeq(s, Len(s) - n + 1, Len(s))

(***************************************************************************)
(* str.lower() and the substring test `k in s`                             *)
(***************************************************************************)
UpperCase == "ABCDEFGHIJKLMNOPQRSTUVWXYZ"
LowerCase == "abcdefghijklmnopqrstuvwxyz"

LowerChar(c) ==
    IF \E k \in 1..26 : SubSeq(UpperCase, k, k) = c
    THEN LET k == CHOOSE k \in 1..26 : SubSeq(UpperCase, k, k) = c
         IN  SubSeq(LowerCase, k, k)
    ELSE c

RECURSIVE StrLower(_)
StrLower(s) == IF Len(s) = 0 THEN ""
               ELSE LowerChar(SubSeq(s, 1, 1)) \o StrLower(SubSeq(s, 2, Len(s)))

\* k in s
Contains(k, s) ==
    \E p \in 1..(Len(s) - Len(k) + 1) : SubSeq(s, p, p + Len(k) - 1) = k

(***************************************************************************)
(* SymptomTimelineAnalyzer.__init__                                        *)
(***************************************************************************)
emergency_keywords ==
    << "chest pain", "difficulty breathing", "shortness of breath",
       "severe headache", "loss of consciousness", "seizure",
       "severe bleeding", "severe abdominal pain", "stroke symptoms",
       "heart palpitations", "severe allergic reaction", "overdose",
       "suicidal thoughts", "severe dizziness", "fainting" >>

cardiovascular == << "chest pain", "palpitations", "shortness of breath",
                     "swelling", "fatigue" >>
neurological == << "headache", "dizziness", "confusion", "memory loss",
                   "seizure", "weakness" >>

\* the symptom labels that the entries of the checked timelines carry
SymptomLabels ==
    { "Chest Pain", "Shortness of Breath", "nausea", "Nausea", "headache",
      "dizziness", "fatigue" }

\* symptom.lower(), computed once per label
LowerOf == [s \in SymptomLabels |-> StrLower(s)]
lower(s) == LowerOf[s]

\* any(keyword in symptom.lower() for keyword in keywords)
AnyKeywordIn(symptom, keywords) ==
    \E k \in 1..Len(keywords) : Contains(keywords[k], StrLower(symptom))

\* the keyword tests, computed once per label
KeywordHits ==
    [s \in SymptomLabels |->
        [ emergency |-> AnyKeywordIn(s, emergency_keywords),
          cardiovascular |-> AnyKeywordIn(s, cardiovascular),
          neurological |-> AnyKeywordIn(s, neurological) ]]

IsEmergencySymptom(e) == KeywordHits[e.symptom].emergency

(***************************************************************************)
(* sorted(timeline, key=lambda x: x.timestamp): a stable sort              *)
(***************************************************************************)
\* e goes in front of the entries of its own timestamp
RECURSIVE InsertByTimestamp_before_equal(_, _)
InsertByTimestamp_before_equal(s, e) ==
    IF s = <<>> THEN <<e>>
    ELSE IF s[Len(s)].timestamp < e.timestamp THEN Append(s, e)
    ELSE Append(InsertByTimestamp_before_equal(SubSeq(s, 1, Len(s) - 1), e),
                s[Len(s)])

\* e goes behind every entry whose timestamp is <= its own
RECURSIVE InsertByTimestamp(_, _)
InsertByTimestamp(s, e) ==
    IF s = <<>> THEN <<e>>
    ELSE IF s[Len(s)].timestamp <= e.timestamp THEN Append(s, e)
    ELSE Append(InsertByTimestamp(SubSeq(s, 1, Len(s) - 1), e), s[Len(s)])

\* the entries in the order submitted
sorted_as_submitted(s) == s

RECURSIVE sorted(_)
sorted(s) == IF s = <<>> THEN <<>>
             ELSE InsertByTimestamp(sorted(SubSeq(s, 1, Len(s) - 1)), s[Len(s)])

Symptom(e) == e.symptom
SymptomKey(e) == lower(e.symptom)
HasSeverity(e) == e.severity # None
Severity(e) == e.severity[1]

(***************************************************************************)
(* _detect_rapid_onset                                                     *)
(***************************************************************************)
\* the inner loop over j = i+1 .. : append while time_diff <= 1, else break
RECURSIVE RapidOnsetScan(_, _, _)
RapidOnsetScan(tl, i, j) ==
    IF j > Len(tl) THEN <<>>
    ELSE IF tl[j].timestamp - tl[i].timestamp <= 4
         THEN <<tl[j]>> \o RapidOnsetScan(tl, i, j + 1)
         ELSE <<>>

rapid_onset_group(tl, i) == <<tl[i]>> \o RapidOnsetScan(tl, i, i + 1)

_assess_rapid_onset_significance(symptoms, emergency_symptoms) ==
    IF emergency_symptoms # <<>>
    THEN "High clinical significance - emergency evaluation required"
    ELSE IF Len(symptoms) >= 5
    THEN "Moderate-high significance - urgent evaluation recommended"
    ELSE "Moderate significance - medical evaluation advised"

\* the urgency by the average severity alone
rapid_onset_urgency_by_severity(emergency_symptoms, severity_scores) ==
    IF /\ severity_scores # <<>>
       /\ Sum(severity_scores) # 0
       /\ Sum(severity_scores) >= 7 * Len(severity_scores)
    THEN "high" ELSE "moderate"

\* "high" if emergency_symptoms or (avg_severity and avg_severity >= 7)
rapid_onset_urgency(emergency_symptoms, severity_scores) ==
    IF \/ emergency_symptoms # <<>>
       \/ /\ severity_scores # <<>>
          /\ Sum(severity_scores) # 0
          /\ Sum(severity_scores) >= 7 * Len(severity_scores)
    THEN "high" ELSE "moderate"

rapid_onset_pattern(group) ==
    LET severity_scores == Map(Severity, Filter(HasSeverity, group))
        emergency_symptoms == Map(Symptom, Filter(IsEmergencySymptom, group))
    IN  [ type |-> "rapid_onset",
          symptom_count |-> Len(group),
          timeframe_minutes |->
              15 * (group[Len(group)].timestamp - group[1].timestamp),
          symptoms |-> Map(Symptom, group),
          average_severity |->
              IF severity_scores = <<>> THEN None
              ELSE Some(<<Sum(severity_scores), Len(severity_scores)>>),
          emergency_symptoms |-> emergency_symptoms,
          clinical_significance |->
              _assess_rapid_onset_significance(group, emergency_symptoms),
          urgency_level |-> rapid_onset_urgency(emergency_symptoms, severity_scores) ]

\* a pattern only for a group of three or more different symptoms
RECURSIVE RapidOnsetFrom_distinct(_, _)
RapidOnsetFrom_distinct(tl, i) ==
    IF i > Len(tl) THEN <<>>
    ELSE (IF Cardinality({ lower(rapid_onset_group(tl, i)[k].symptom) :
                               k \in 1..Len(rapid_onset_group(tl, i)) }) >= 3
          THEN <<rapid_onset_pattern(rapid_onset_group(tl, i))>>
          ELSE <<>>) \o RapidOnsetFrom_distinct(tl, i + 1)

RECURSIVE RapidOnsetFrom(_, _)
RapidOnsetFrom(tl, i) ==
    IF i > Len(tl) THEN <<>>
    ELSE (IF Len(rapid_onset_group(tl, i)) >= 3
          THEN <<rapid_onset_pattern(rapid_onset_group(tl, i))>>
          ELSE <<>>) \o RapidOnsetFrom(tl, i + 1)

\* a pattern only for a group that reaches past the groups before it
RECURSIVE RapidOnsetMaximalFrom(_, _, _)
RapidOnsetMaximalFrom(tl, i, reached) ==
    IF i > Len(tl) THEN <<>>
    ELSE LET group == rapid_onset_group(tl, i)
             last == i + Len(group) - 1
         IN  (IF Len(group) >= 3 /\ last > reached
              THEN <<rapid_onset_pattern(group)>>
              ELSE <<>>)
             \o RapidOnsetMaximalFrom(tl, i + 1,
                                      IF last > reached THEN last ELSE reached)

_detect_rapid_onset_deduplicated(tl) == RapidOnsetMaximalFrom(tl, 1, 0)

_detect_rapid_onset(tl) == RapidOnsetFrom(tl, 1)

(***************************************************************************)
(* _analyze_severity_trends                                                *)
(***************************************************************************)
\* symptom_groups: keys in insertion order, entries that carry a severity
severity_group_keys(tl) == Distinct(Map(SymptomKey, Filter(HasSeverity, tl)))

severity_group(tl, key) ==
    LET InGroup(e) == HasSeverity(e) /\ lower(e.symptom) = key
    IN  sorted(Filter(InGroup, tl))

_assess_severity_trend_significance(direction, slope, severities) ==
    IF direction = "increasing" /\ MaxOf(severities) >= 7
    THEN "High significance - worsening severe symptom requires immediate attention"
    ELSE IF direction = "increasing" /\ Abs(slope[1]) > slope[2]
    THEN "Moderate-high significance - rapid worsening trend"
    ELSE IF direction = "decreasing"
    THEN "Positive trend - symptom improving"
    ELSE "Monitor for changes"

\* a slope of 0.1 in size still counted as stable
trend_direction_of_wide_stable(slope) ==
    IF 10 * Abs(slope[1]) <= slope[2] THEN "stable"
    ELSE IF slope[1] > 0 THEN "increasing"
    ELSE "decreasing"

\* abs(slope) < 0.1 -> stable; slope > 0 -> increasing; else decreasing
trend_direction_of(slope) ==
    IF 10 * Abs(slope[1]) < slope[2] THEN "stable"
    ELSE IF slope[1] > 0 THEN "increasing"
    ELSE "decreasing"

\* the quotient taken whatever its denominators
correlation_of_unguarded(n, sum_x, sum_y, sum_xy, sum_x2, sum_y2) ==
    << n * sum_xy - sum_x * sum_y,
       n * sum_x2 - sum_x * sum_x,
       n * sum_y2 - sum_y * sum_y >>

\* statistics.correlation, 0 when it raises (a constant input): the value
\* sxy / sqrt(sxx * syy) is kept as <<sxy, sxx, syy>>
correlation_of(n, sum_x, sum_y, sum_xy, sum_x2, sum_y2) ==
    LET sxy == n * sum_xy - sum_x * sum_y
        sxx == n * sum_x2 - sum_x * sum_x
        syy == n * sum_y2 - sum_y * sum_y
    IN  IF sxx = 0 \/ syy = 0 THEN <<0, 1, 1>> ELSE <<sxy, sxx, syy>>

severity_trend(key, entries) ==
    LET n == Len(entries)
        \* quarter hours since the group's first entry
        X(e) == e.timestamp - entries[1].timestamp
        XY(e) == X(e) * Severity(e)
        XX(e) == X(e) * X(e)
        YY(e) == Severity(e) * Severity(e)
        sum_x == Sum(Map(X, entries))
        sum_y == Sum(Map(Severity, entries))
        sum_xy == Sum(Map(XY, entries))
        sum_x2 == Sum(Map(XX, entries))
        sum_y2 == Sum(Map(YY, entries))
        denominator == n * sum_x2 - sum_x * sum_x
        \* severity per hour
        slope == IF denominator # 0
                 THEN <<4 * (n * sum_xy - sum_x * sum_y), denominator>>
                 ELSE <<0, 1>>
        direction == trend_direction_of(slope)
    IN  [ symptom |-> key,
          trend_direction |-> direction,
          slope |-> slope,
          correlation_coefficient |->
              correlation_of(n, sum_x, sum_y, sum_xy, sum_x2, sum_y2),
          significance |->
              _assess_severity_trend_significance(direction, slope,
                                                  Map(Severity, entries)) ]

\* a trend from two entries with a severity on
RECURSIVE SeverityTrendsOf_from_two(_, _)
SeverityTrendsOf_from_two(tl, keys) ==
    IF keys = <<>> THEN <<>>
    ELSE (IF Len(severity_group(tl, keys[1])) >= 2
          THEN <<severity_trend(keys[1], severity_group(tl, keys[1]))>>
          ELSE <<>>) \o SeverityTrendsOf_from_two(tl, Tail(keys))

RECURSIVE SeverityTrendsOf(_, _)
SeverityTrendsOf(tl, keys) ==
    IF keys = <<>> THEN <<>>
    ELSE (IF Len(severity_group(tl, keys[1])) >= 3
          THEN <<severity_trend(keys[1], severity_group(tl, keys[1]))>>
          ELSE <<>>) \o SeverityTrendsOf(tl, Tail(keys))

_analyze_severity_trends(tl) == SeverityTrendsOf(tl, severity_group_keys(tl))

(***************************************************************************)
(* _detect_cyclical_patterns                                               *)
(***************************************************************************)
occurrence_keys(tl) == Distinct(Map(SymptomKey, tl))

occurrences_of(tl, key) ==
    LET InGroup(e) == lower(e.symptom) = key
    IN  sorted(Filter(InGroup, tl))

\* quarter hours between consecutive occurrences
intervals_of(occ) == [k \in 1..(Len(occ) - 1) |-> occ[k + 1].timestamp - occ[k].timestamp]

Square(x) == x * x

\* n * sum(d*d) - sum(d)^2 : n*(n-1) times the sample variance of d
ScaledVariance(d) == Len(d) * Sum(Map(Square, d)) - Sum(d) * Sum(d)

\* the variance at most the given share of the mean
VarianceBelow_or_equal(d, tenths) ==
    5 * ScaledVariance(d) <= 2 * tenths * (Len(d) - 1) * Sum(d)

\* statistics.variance(intervals) < avg_interval * tenths / 10, intervals in
\* hours: V/(16 n (n-1)) < (S/(4 n)) * tenths/10
VarianceBelow(d, tenths) ==
    5 * ScaledVariance(d) < 2 * tenths * (Len(d) - 1) * Sum(d)

_assess_cyclical_significance(d, occurrences) ==
    IF Sum(d) < 24 * 4 * Len(d) /\ occurrences >= 4
    THEN "High significance - frequent recurring pattern may indicate acute condition"
    ELSE IF 24 * 4 * Len(d) <= Sum(d) /\ Sum(d) <= 168 * 4 * Len(d)
    THEN "Moderate significance - regular pattern suggests systematic evaluation needed"
    ELSE "Low-moderate significance - document pattern for healthcare provider"

cyclical_pattern(key, occ) ==
    LET d == intervals_of(occ)
    IN  [ type |-> "cyclical",
          symptom |-> key,
          occurrence_count |-> Len(occ),
          average_interval_hours |-> <<Sum(d), 4 * Len(d)>>,
          interval_variance |-> <<ScaledVariance(d), 16 * Len(d) * (Len(d) - 1)>>,
          pattern_consistency |-> IF VarianceBelow(d, 3) THEN "high" ELSE "moderate",
          clinical_significance |-> _assess_cyclical_significance(d, Len(occ)) ]

is_cyclical(occ) ==
    /\ Len(occ) >= 3
    /\ Len(intervals_of(occ)) >= 2
    /\ VarianceBelow(intervals_of(occ), 5)

RECURSIVE CyclicalPatternsOf(_, _)
CyclicalPatternsOf(tl, keys) ==
    IF keys = <<>> THEN <<>>
    ELSE (IF is_cyclical(occurrences_of(tl, keys[1]))
          THEN <<cyclical_pattern(keys[1], occurrences_of(tl, keys[1]))>>
          ELSE <<>>) \o CyclicalPatternsOf(tl, Tail(keys))

_detect_cyclical_patterns(tl) == CyclicalPatternsOf(tl, occurrence_keys(tl))

(***************************************************************************)
(* _identify_symptom_clusters and _count_cluster_frequency                 *)
(***************************************************************************)
\* the inner loop over j = i+1 .. : within 4 hours, collect the labels not
\* yet in cluster_symptoms (compared as written) and move cluster_end
RECURSIVE ClusterScan(_, _, _, _)
ClusterScan(tl, i, j, acc) ==
    IF j > Len(tl) THEN acc
    ELSE IF tl[j].timestamp - tl[i].timestamp <= 16
         THEN IF InList(tl[j].symptom, acc.symptoms)
              THEN ClusterScan(tl, i, j + 1, acc)
              ELSE ClusterScan(tl, i, j + 1,
                       [symptoms |-> Append(acc.symptoms, tl[j].symptom),
                        end |-> tl[j].timestamp])
         ELSE acc

\* found_symptoms of the window that starts at entry i
RECURSIVE FoundScan(_, _, _, _, _)
FoundScan(tl, cluster_symptoms, window_hours, i, j) ==
    IF j > Len(tl) THEN {}
    ELSE IF tl[j].timestamp - tl[i].timestamp <= 4 * window_hours
         THEN (IF InList(tl[j].symptom, cluster_symptoms)
               THEN {tl[j].symptom} ELSE {})
              \cup FoundScan(tl, cluster_symptoms, window_hours, i, j + 1)
         ELSE {}

\* a window counts from three fifths of the cluster's symptoms on
_count_cluster_frequency_three_fifths(tl, cluster_symptoms, window_hours) ==
    Cardinality({ i \in 1..Len(tl) :
        10 * Cardinality(FoundScan(tl, cluster_symptoms, window_hours, i, i))
            >= 6 * Len(cluster_symptoms) })

\* len(found_symptoms) >= len(cluster_symptoms) * 0.8
_count_cluster_frequency(tl, cluster_symptoms, window_hours) ==
    Cardinality({ i \in 1..Len(tl) :
        10 * Cardinality(FoundScan(tl, cluster_symptoms, window_hours, i, i))
            >= 8 * Len(cluster_symptoms) })

_assess_cluster_significance(symptoms) ==
    IF Cardinality({ k \in 1..Len(symptoms) :
                       KeywordHits[symptoms[k]].cardiovascular }) >= 2
    THEN "High significance - cardiovascular symptom cluster requires prompt evaluation"
    ELSE IF Cardinality({ k \in 1..Len(symptoms) :
                            KeywordHits[symptoms[k]].neurological }) >= 2
    THEN "High significance - neurological symptom cluster requires prompt evaluation"
    ELSE "Moderate significance - symptom cluster pattern noted"

RECURSIVE SymptomClustersFrom(_, _)
SymptomClustersFrom(tl, i) ==
    IF i > Len(tl) THEN <<>>
    ELSE LET c == ClusterScan(tl, i, i + 1,
                      [symptoms |-> <<tl[i].symptom>>, end |-> tl[i].timestamp])
             pattern_frequency == _count_cluster_frequency(tl, c.symptoms, 4)
         IN  (IF Len(c.symptoms) >= 2 /\ pattern_frequency >= 2
              THEN << [ symptoms |-> c.symptoms,
                        timeframe |-> <<tl[i].timestamp, c.end>>,
                        frequency |-> pattern_frequency,
                        clinical_significance |->
                            _assess_cluster_significance(c.symptoms) ] >>
              ELSE <<>>) \o SymptomClustersFrom(tl, i + 1)

_identify_symptom_clusters(tl) == SymptomClustersFrom(tl, 1)

(***************************************************************************)
(* _find_temporal_associations                                             *)
(***************************************************************************)
\* the inner loop over j = i+1 .. : within 24 hours, one (pair_key,
\* time_diff) per later entry whose lower-cased label differs; else break
RECURSIVE PairScan(_, _, _)
PairScan(tl, i, j) ==
    IF j > Len(tl) THEN <<>>
    ELSE IF tl[j].timestamp - tl[i].timestamp <= 96
         THEN (IF lower(tl[i].symptom) # lower(tl[j].symptom)
               THEN << [ pair_key |-> lower(tl[i].symptom) \o " -> "
                                          \o lower(tl[j].symptom),
                         time_diff |-> tl[j].timestamp - tl[i].timestamp ] >>
               ELSE <<>>) \o PairScan(tl, i, j + 1)
         ELSE <<>>

\* every append to symptom_pairs, in the order the loops make them
RECURSIVE PairAppends(_, _)
PairAppends(tl, i) ==
    IF i > Len(tl) - 1 THEN <<>>
    ELSE PairScan(tl, i, i + 1) \o PairAppends(tl, i + 1)

PairKey(a) == a.pair_key
TimeDiff(a) == a.time_diff

time_diffs_of(appends, key) ==
    LET IsKey(a) == a.pair_key = key
    IN  Map(TimeDiff, Filter(IsKey, appends))

\* consistency = 1 - stdev(time_diffs)/avg_delay if avg_delay > 0 else 0,
\* kept as the fraction (stdev/avg_delay)^2 = n*V / ((n-1)*S*S)
timing_consistency_of(d) ==
    IF Sum(d) > 0
    THEN [defined |-> TRUE,
          cv2 |-> <<Len(d) * ScaledVariance(d), (Len(d) - 1) * Sum(d) * Sum(d)>>]
    ELSE [defined |-> FALSE, cv2 |-> <<0, 1>>]

\* the threshold applied to the fraction whatever the average delay
consistency_above_threshold_at_any_delay(c) ==
    100 * c.cv2[1] < 49 * c.cv2[2]

\* consistency > 0.3  <=>  stdev/avg_delay < 0.7  <=>  100 * cv2 < 49
consistency_above_threshold(c) ==
    c.defined /\ 100 * c.cv2[1] < 49 * c.cv2[2]

_assess_association_relevance(d) ==
    IF Sum(d) < 4 * Len(d)
    THEN "High relevance - immediate symptom progression"
    ELSE IF Sum(d) < 24 * Len(d)
    THEN "Moderate relevance - short-term symptom development"
    ELSE "Low-moderate relevance - document pattern"

RECURSIVE AssociationsOf(_, _)
AssociationsOf(appends, keys) ==
    IF keys = <<>> THEN <<>>
    ELSE LET d == time_diffs_of(appends, keys[1])
         IN  (IF Len(d) >= 2 /\ consistency_above_threshold(timing_consistency_of(d))
              THEN << [ type |-> "temporal_association",
                        symptom_pair |-> keys[1],
                        occurrence_count |-> Len(d),
                        average_delay_hours |-> <<Sum(d), 4 * Len(d)>>,
                        timing_consistency |-> timing_consistency_of(d).cv2,
                        clinical_relevance |-> _assess_association_relevance(d) ] >>
              ELSE <<>>) \o AssociationsOf(appends, Tail(keys))

_find_temporal_associations(tl) ==
    AssociationsOf(PairAppends(tl, 1), Distinct(Map(PairKey, PairAppends(tl, 1))))

(***************************************************************************)
(* _detect_emergency_patterns                                              *)
(***************************************************************************)
\* Pattern 1: rapid escalation between timeline[i] and timeline[i+1]
is_rapid_escalation(a, b) ==
    /\ Truthy(a.severity) /\ Truthy(b.severity)
    /\ Severity(b) - Severity(a) >= 4
    /\ b.timestamp - a.timestamp <= 8

RECURSIVE RapidEscalationsFrom(_, _)
RapidEscalationsFrom(tl, i) ==
    IF i > Len(tl) - 1 THEN <<>>
    ELSE (IF is_rapid_escalation(tl[i], tl[i + 1])
          THEN << [ type |-> "rapid_escalation",
                    severity_increase |-> Severity(tl[i + 1]) - Severity(tl[i]),
                    timeframe_hours |-> <<tl[i + 1].timestamp - tl[i].timestamp, 4>>,
                    symptoms |-> <<tl[i].symptom, tl[i + 1].symptom>>,
                    urgency |-> "high",
                    recommendation |-> "Immediate medical evaluation required" ] >>
          ELSE <<>>) \o RapidEscalationsFrom(tl, i + 1)

\* a cluster only from three emergency entries on
emergency_symptom_cluster_of_three(tl) ==
    LET emergency_symptoms == Map(Symptom, Filter(IsEmergencySymptom, tl))
    IN  IF Len(emergency_symptoms) >= 3
        THEN << [ type |-> "emergency_symptom_cluster",
                  emergency_symptom_count |-> Len(emergency_symptoms),
                  emergency_symptoms |-> emergency_symptoms,
                  urgency |-> "critical",
                  recommendation |->
                      "Emergency medical attention required immediately" ] >>
        ELSE <<>>

\* Pattern 2: emergency keyword combinations
emergency_symptom_cluster(tl) ==
    LET emergency_symptoms == Map(Symptom, Filter(IsEmergencySymptom, tl))
    IN  IF Len(emergency_symptoms) >= 2
        THEN << [ type |-> "emergency_symptom_cluster",
                  emergency_symptom_count |-> Len(emergency_symptoms),
                  emergency_symptoms |-> emergency_symptoms,
                  urgency |-> "critical",
                  recommendation |->
                      "Emergency medical attention required immediately" ] >>
        ELSE <<>>

_detect_emergency_patterns(tl) ==
    RapidEscalationsFrom(tl, 1) \o emergency_symptom_cluster(tl)

(***************************************************************************)
(* _calculate_comprehensive_risk                                           *)
(***************************************************************************)
\* str(n) of an f-string, n >= 0
Digits == "0123456789"

RECURSIVE ToStr(_)
ToStr(n) == IF n < 10 THEN SubSeq(Digits, n + 1, n + 1)
            ELSE ToStr(n \div 10) \o SubSeq(Digits, (n % 10) + 1, (n % 10) + 1)

\* the reason put in front of the earlier ones
AddRisk_prepending(acc, points, reason) ==
    [risk_score |-> acc.risk_score + points,
     risk_factors |-> <<reason>> \o acc.risk_factors]

\* risk_score += points; risk_factors.append(reason)
AddRisk(acc, points, reason) ==
    [risk_score |-> acc.risk_score + points,
     risk_factors |-> Append(acc.risk_factors, reason)]

\* for pattern in emergency_indicators
RECURSIVE EmergencyRule(_, _)
EmergencyRule(patterns, acc) ==
    IF patterns = <<>> THEN acc
    ELSE EmergencyRule(Tail(patterns),
             IF patterns[1].urgency = "critical"
             THEN AddRisk(acc, 40, "Critical emergency patterns detected")
             ELSE IF patterns[1].urgency = "high"
             THEN AddRisk(acc, 25, "High-urgency patterns detected")
             ELSE acc)

\* for pattern in rapid_onset_patterns
RECURSIVE RapidOnsetRule(_, _)
RapidOnsetRule(patterns, acc) ==
    IF patterns = <<>> THEN acc
    ELSE RapidOnsetRule(Tail(patterns),
             IF patterns[1].urgency_level = "high"
             THEN AddRisk(acc, 20, "Rapid onset of multiple symptoms")
             ELSE AddRisk(acc, 10, "Moderate rapid onset pattern"))

IsIncreasing(t) == t.trend_direction = "increasing"

\* worsening_trends
SeverityTrendRule(severity_trends, acc) ==
    LET worsening_trends == Filter(IsIncreasing, severity_trends)
    IN  IF worsening_trends # <<>>
        THEN AddRisk(acc, Len(worsening_trends) * 5,
                     ToStr(Len(worsening_trends)) \o " worsening symptom trends")
        ELSE acc

\* the moderate-severe band opening above 6
RecentSeverityRule_above6(tl, acc) ==
    LET recent_entries == Filter(HasSeverity, LastN(tl, 5))
    IN  IF recent_entries = <<>> THEN acc
        ELSE IF MaxOf(Map(Severity, recent_entries)) >= 8
        THEN AddRisk(acc, 15, "Recent severe symptoms (8+/10)")
        ELSE IF MaxOf(Map(Severity, recent_entries)) > 6
        THEN AddRisk(acc, 8, "Recent moderate-severe symptoms (6-7/10)")
        ELSE acc

\* recent_entries = [e for e in timeline[-5:] if e.severity is not None]
RecentSeverityRule(tl, acc) ==
    LET recent_entries == Filter(HasSeverity, LastN(tl, 5))
    IN  IF recent_entries = <<>> THEN acc
        ELSE IF MaxOf(Map(Severity, recent_entries)) >= 8
        THEN AddRisk(acc, 15, "Recent severe symptoms (8+/10)")
        ELSE IF MaxOf(Map(Severity, recent_entries)) >= 6
        THEN AddRisk(acc, 8, "Recent moderate-severe symptoms (6-7/10)")
        ELSE acc

\* Determine risk level
risk_level_of(risk_score) ==
    IF risk_score >= 50 THEN "critical"
    ELSE IF risk_score >= 30 THEN "high"
    ELSE IF risk_score >= 15 THEN "moderate"
    ELSE "low"

\* the returned dict with the score as summed
risk_assessment_of_uncapped(risk_score, risk_factors) ==
    [ risk_level |-> risk_level_of(risk_score),
      risk_score |-> risk_score,
      risk_factors |-> risk_factors,
      immediate_attention_required |-> risk_score >= 30,
      emergency_evaluation_recommended |-> risk_score >= 50 ]

\* the returned dict
risk_assessment_of(risk_score, risk_factors) ==
    [ risk_level |-> risk_level_of(risk_score),
      risk_score |-> Min(100, risk_score),
      risk_factors |-> risk_factors,
      immediate_attention_required |-> risk_score >= 30,
      emergency_evaluation_recommended |-> risk_score >= 50 ]

_calculate_comprehensive_risk(tl, rapid_onset_patterns, severity_trends, emergency_indicators) ==
    LET a0 == [risk_score |-> 0, risk_factors |-> <<>>]
        a1 == EmergencyRule(emergency_indicators, a0)
        a2 == RapidOnsetRule(rapid_onset_patterns, a1)
        a3 == SeverityTrendRule(severity_trends, a2)
        a4 == RecentSeverityRule(tl, a3)
    IN  risk_assessment_of(a4.risk_score, a4.risk_factors)

(***************************************************************************)
(* _generate_timeline_recommendations                                      *)
(***************************************************************************)
emergency_recommendation(emergency_indicators) ==
    IF emergency_indicators # <<>>
    THEN << [ category |-> "emergency",
              action |-> "Seek immediate emergency medical attention",
              priority |-> "critical",
              timeline |-> "Immediately",
              reasoning |-> "Emergency patterns detected in symptom timeline" ] >>
    ELSE <<>>

\* the urgent recommendation for every timeline with a rapid onset
urgent_recommendation_beside_emergency(rapid_onset_patterns, emergency_indicators) ==
    IF rapid_onset_patterns # <<>>
    THEN << [ category |-> "urgent",
              action |-> "Urgent medical evaluation recommended",
              priority |-> "high",
              timeline |-> "Within 2-4 hours",
              reasoning |->
                  "Rapid onset of multiple symptoms requires prompt assessment" ] >>
    ELSE <<>>

urgent_recommendation(rapid_onset_patterns, emergency_indicators) ==
    IF rapid_onset_patterns # <<>> /\ ~(emergency_indicators # <<>>)
    THEN << [ category |-> "urgent",
              action |-> "Urgent medical evaluation recommended",
              priority |-> "high",
              timeline |-> "Within 2-4 hours",
              reasoning |->
                  "Rapid onset of multiple symptoms requires prompt assessment" ] >>
    ELSE <<>>

\* the monitoring recommendation at every risk level
monitoring_recommendation_at_any_risk(severity_trends, risk_assessment) ==
    LET worsening_trends == Filter(IsIncreasing, severity_trends)
    IN  IF worsening_trends # <<>>
        THEN << [ category |-> "monitoring",
                  action |->
                      "Close monitoring and medical follow-up for worsening symptoms",
                  priority |-> "high",
                  timeline |-> "Within 24 hours",
                  reasoning |-> "Worsening trends detected in "
                      \o ToStr(Len(worsening_trends)) \o " symptoms" ] >>
        ELSE <<>>

monitoring_recommendation(severity_trends, risk_assessment) ==
    LET worsening_trends == Filter(IsIncreasing, severity_trends)
    IN  IF worsening_trends # <<>>
           /\ risk_assessment.risk_level \in {"moderate", "high"}
        THEN << [ category |-> "monitoring",
                  action |->
                      "Close monitoring and medical follow-up for worsening symptoms",
                  priority |-> "high",
                  timeline |-> "Within 24 hours",
                  reasoning |-> "Worsening trends detected in "
                      \o ToStr(Len(worsening_trends)) \o " symptoms" ] >>
        ELSE <<>>

follow_up_recommendation(cyclical_patterns) ==
    IF cyclical_patterns # <<>>
    THEN << [ category |-> "follow_up",
              action |-> "Discuss recurring symptom patterns with healthcare provider",
              priority |-> "medium",
              timeline |-> "At next appointment",
              reasoning |->
                  "Cyclical patterns may indicate underlying condition requiring management" ] >>
    ELSE <<>>

documentation_recommendation ==
    << [ category |-> "documentation",
         action |-> "Continue detailed symptom tracking with timestamps",
         priority |-> "medium",
         timeline |-> "Ongoing",
         reasoning |-> "Timeline data provides valuable clinical information" ] >>

_generate_timeline_recommendations(rapid_onset_patterns, severity_trends, cyclical_patterns, emergency_indicators, risk_assessment) ==
    emergency_recommendation(emergency_indicators)
    \o urgent_recommendation(rapid_onset_patterns, emergency_indicators)
    \o monitoring_recommendation(severity_trends, risk_assessment)
    \o follow_up_recommendation(cyclical_patterns)
    \o documentation_recommendation

(***************************************************************************)
(* _create_empty_analysis                                                  *)
(***************************************************************************)
\* the risk assessment the aggregator gives to a score of 0
empty_risk_assessment_low ==
    [ risk_level |-> "low",
      risk_score |-> 0,
      risk_factors |-> <<>>,
      immediate_attention_required |-> FALSE,
      emergency_evaluation_recommended |-> FALSE ]

empty_risk_assessment ==
    [ risk_level |-> "unknown",
      risk_score |-> 0,
      risk_factors |-> <<>>,
      immediate_attention_required |-> FALSE,
      emergency_evaluation_recommended |-> FALSE ]

_create_empty_analysis(utcnow) ==
    [ timeline_metadata |->
          [total_entries |-> 0, date_range |-> None, unique_symptoms |-> 0],
      pattern_analysis |->
          [ rapid_onset |-> <<>>,
            severity_trends |-> <<>>,
            cyclical_patterns |-> <<>>,
            symptom_clusters |-> <<>>,
            temporal_associations |-> <<>>,
            emergency_indicators |-> <<>> ],
      ai_analysis |-> [message |-> "No timeline data available"],
      risk_assessment |-> empty_risk_assessment,
      clinical_recommendations |->
          << [ category |-> "documentation",
               action |-> "Begin symptom timeline tracking",
               priority |-> "low",
               timeline |-> "Ongoing",
               reasoning |-> "Timeline data improves clinical assessment" ] >>,
      analysis_timestamp |-> utcnow ]

(***************************************************************************)
(* SpecializedMedicalService: the narrative collaborator                   *)
(***************************************************************************)
\* self.models[AnalysisType.TIMELINE_ANALYSIS]
timeline_model_config ==
    [ primary |-> "meta-llama/llama-3.1-8b-instruct:free",
      backup |-> << "google/gemma-2-9b-it:free",
                    "microsoft/wizardlm-2-8x22b:free" >> ]

\* what a function call gives: a value, or an exception that leaves it
Return(v) == [raised |-> FALSE, value |-> v]
Raise(msg) == [raised |-> TRUE, error |-> msg]

\* _analyze_timeline_patterns, Pattern 1: consecutive entries <= 1 hour apart
rapid_pairs(tl) ==
    { k \in 2..Len(tl) : tl[k].timestamp - tl[k - 1].timestamp <= 4 }

MinSet(S) == CHOOSE x \in S : \A y \in S : x <= y
MaxSet(S) == CHOOSE x \in S : \A y \in S : x >= y

rapid_onset_timeline_pattern(tl) ==
    IF rapid_pairs(tl) # {}
    THEN << [ pattern_type |-> "rapid_onset",
              description |-> "Multiple symptoms appeared within 1 hour",
              start_time |-> tl[MinSet(rapid_pairs(tl)) - 1].timestamp,
              end_time |-> tl[MaxSet(rapid_pairs(tl))].timestamp,
              severity_trend |-> None,
              confidence |-> <<8, 10>> ] >>
    ELSE <<>>

\* Pattern 2: increasing_count >= len(severity_timeline) * 0.7
progressive_worsening_pattern(tl) ==
    LET severity_timeline == Filter(HasSeverity, tl)
        increasing_count ==
            Cardinality({ k \in 2..Len(severity_timeline) :
                Severity(severity_timeline[k]) > Severity(severity_timeline[k - 1]) })
    IN  IF Len(severity_timeline) >= 3
           /\ 10 * increasing_count >= 7 * Len(severity_timeline)
        THEN << [ pattern_type |-> "progressive_worsening",
                  description |-> "Symptoms progressively worsening over time",
                  start_time |-> severity_timeline[1].timestamp,
                  end_time |-> severity_timeline[Len(severity_timeline)].timestamp,
                  severity_trend |-> Some("worsening"),
                  confidence |-> <<9, 10>> ] >>
        ELSE <<>>

\* ', '.join(names)
RECURSIVE Join(_)
Join(names) == IF Len(names) = 1 THEN names[1]
               ELSE names[1] \o ", " \o Join(Tail(names))

\* Pattern 3: labels (as written) counted >= 3 times
recurring_pattern(tl) ==
    LET Recurs(name) ==
            Cardinality({ k \in 1..Len(tl) : tl[k].symptom = name }) >= 3
        recurring_symptoms == Filter(Recurs, Distinct(Map(Symptom, tl)))
    IN  IF recurring_symptoms # <<>>
        THEN << [ pattern_type |-> "cyclical_pattern",
                  description |-> "Recurring symptoms: " \o Join(recurring_symptoms),
                  start_time |-> tl[1].timestamp,
                  end_time |-> tl[Len(tl)].timestamp,
                  severity_trend |-> None,
                  confidence |-> <<7, 10>> ] >>
        ELSE <<>>

_analyze_timeline_patterns(tl) ==
    IF Len(tl) < 2 THEN <<>>
    ELSE rapid_onset_timeline_pattern(tl)
         \o progressive_worsening_pattern(tl)
         \o recurring_pattern(tl)

_analyze_symptom_progression(tl) ==
    IF Len(tl) < 2 THEN [progression |-> "insufficient_data"]
    ELSE LET severities == Map(Severity, Filter(HasSeverity, tl))
         IN  [ progression |->
                   IF Len(severities) >= 2
                   THEN IF severities[Len(severities)] > severities[1] THEN "worsening"
                        ELSE IF severities[Len(severities)] < severities[1]
                        THEN "improving"
                        ELSE "stable"
                   ELSE "unknown",
               severity_range |->
                   IF severities # <<>>
                   THEN Some(<<MinOf(severities), MaxOf(severities)>>)
                   ELSE None,
               symptom_count_trend |-> 0,
               average_interval_hours |->
                   <<tl[Len(tl)].timestamp - tl[1].timestamp, 4 * (Len(tl) - 1)>>,
               total_duration_hours |->
                   <<tl[Len(tl)].timestamp - tl[1].timestamp, 4>> ]

TruthySeverity(e) == Truthy(e.severity)

_calculate_risk_trajectory(tl) ==
    LET recent == Map(Severity, Filter(TruthySeverity, LastN(tl, 3)))
        \* avg_recent_severity, 5 when no recent entry has a severity
        avg == IF recent # <<>> THEN <<Sum(recent), Len(recent)>> ELSE <<5, 1>>
        \* consecutive entries less than an hour apart
        rapid_changes ==
            Cardinality({ k \in 2..Len(tl) :
                tl[k].timestamp - tl[k - 1].timestamp < 4 })
    IN  [ current_risk |->
              IF avg[1] >= 8 * avg[2] \/ rapid_changes >= 3 THEN "high"
              ELSE IF avg[1] >= 6 * avg[2] \/ rapid_changes >= 2 THEN "moderate"
              ELSE "low",
          risk_trend |-> IF rapid_changes >= 2 THEN "increasing" ELSE "stable",
          rapid_changes_count |-> rapid_changes,
          average_recent_severity |-> avg ]

_create_fallback_timeline_analysis(error, tl, patterns) ==
    [ timeline_summary |-> "Timeline analysis partially completed. "
          \o ToStr(Len(tl)) \o " entries analyzed.",
      identified_patterns |-> patterns,
      ai_insights |-> [error |-> error, fallback |-> TRUE],
      progression_analysis |-> _analyze_symptom_progression(tl),
      risk_trajectory |-> _calculate_risk_trajectory(tl),
      recommendations |->
          << [ action |-> "Review timeline with healthcare provider",
               timing |-> "At next appointment",
               reasoning |->
                   "Professional review needed for timeline interpretation" ] >> ]

\* the class defines no method _parse_timeline_response (the call at line
\* 194 is its only mention): the attribute lookup raises AttributeError
_parse_timeline_response(response) ==
    Raise("'SpecializedMedicalService' object has no attribute '_parse_timeline_response'")

\* the try block of symptom_timeline_analysis, from the point where
\* _call_specialized_model has returned a response or raised
timeline_analysis_try(model_outcome, tl, patterns) ==
    IF model_outcome.raised THEN model_outcome
    ELSE LET parsed == _parse_timeline_response(model_outcome.value)
         IN  IF parsed.raised THEN parsed
             ELSE Return(
                 [ timeline_summary |-> parsed.value.summary,
                   identified_patterns |-> patterns,
                   ai_insights |-> parsed.value,
                   progression_analysis |-> _analyze_symptom_progression(tl),
                   risk_trajectory |-> _calculate_risk_trajectory(tl),
                   recommendations |-> parsed.value.recommendations ])

\* the try block without its except clause
symptom_timeline_analysis_no_except(timeline, model_outcome) ==
    LET sorted_timeline == sorted(timeline)
        patterns == _analyze_timeline_patterns(sorted_timeline)
    IN  timeline_analysis_try(model_outcome, sorted_timeline, patterns)

\* symptom_timeline_analysis for a non-empty timeline: sort, patterns, the
\* try block, and `except Exception as e` giving the fallback analysis
symptom_timeline_analysis(timeline, model_outcome) ==
    LET sorted_timeline == sorted(timeline)
        patterns == _analyze_timeline_patterns(sorted_timeline)
        tried == timeline_analysis_try(model_outcome, sorted_timeline, patterns)
    IN  IF tried.raised
        THEN Return(_create_fallback_timeline_analysis(tried.error, sorted_timeline,
                                                       patterns))
        ELSE tried

(***************************************************************************)
(* analyze_comprehensive_timeline                                          *)
(***************************************************************************)
\* the locals that analyze_comprehensive_timeline holds across the await
detector_outputs(sorted_timeline) ==
    [ sorted_timeline |-> sorted_timeline,
      rapid_onset_patterns |-> _detect_rapid_onset(sorted_timeline),
      severity_trends |-> _analyze_severity_trends(sorted_timeline),
      cyclical_patterns |-> _detect_cyclical_patterns(sorted_timeline),
      symptom_clusters |-> _identify_symptom_clusters(sorted_timeline),
      temporal_associations |-> _find_temporal_associations(sorted_timeline),
      emergency_indicators |-> _detect_emergency_patterns(sorted_timeline) ]

\* the returned dict with the duration measured up to the time of analysis
comprehensive_report_duration_to_now(f, ai_analysis, risk_assessment, recommendations, utcnow) ==
    [ timeline_metadata |->
          [ total_entries |-> Len(f.sorted_timeline),
            date_range |-> Some(
                [ start |-> f.sorted_timeline[1].timestamp,
                  end |-> f.sorted_timeline[Len(f.sorted_timeline)].timestamp,
                  duration_hours |->
                      << utcnow - f.sorted_timeline[1].timestamp, 4 >> ]),
            unique_symptoms |->
                Cardinality({ lower(f.sorted_timeline[k].symptom) :
                                  k \in 1..Len(f.sorted_timeline) }) ],
      pattern_analysis |->
          [ rapid_onset |-> f.rapid_onset_patterns,
            severity_trends |-> f.severity_trends,
            cyclical_patterns |-> f.cyclical_patterns,
            symptom_clusters |-> f.symptom_clusters,
            temporal_associations |-> f.temporal_associations,
            emergency_indicators |-> f.emergency_indicators ],
      ai_analysis |-> ai_analysis,
      risk_assessment |-> risk_assessment,
      clinical_recommendations |-> recommendations,
      analysis_timestamp |-> utcnow ]

\* the returned dict of a non-empty timeline
comprehensive_report(f, ai_analysis, risk_assessment, recommendations, utcnow) ==
    [ timeline_metadata |->
          [ total_entries |-> Len(f.sorted_timeline),
            date_range |-> Some(
                [ start |-> f.sorted_timeline[1].timestamp,
                  end |-> f.sorted_timeline[Len(f.sorted_timeline)].timestamp,
                  duration_hours |->
                      << f.sorted_timeline[Len(f.sorted_timeline)].timestamp
                             - f.sorted_timeline[1].timestamp, 4 >> ]),
            unique_symptoms |->
                Cardinality({ lower(f.sorted_timeline[k].symptom) :
                                  k \in 1..Len(f.sorted_timeline) }) ],
      pattern_analysis |->
          [ rapid_onset |-> f.rapid_onset_patterns,
            severity_trends |-> f.severity_trends,
            cyclical_patterns |-> f.cyclical_patterns,
            symptom_clusters |-> f.symptom_clusters,
            temporal_associations |-> f.temporal_associations,
            emergency_indicators |-> f.emergency_indicators ],
      ai_analysis |-> ai_analysis,
      risk_assessment |-> risk_assessment,
      clinical_recommendations |-> recommendations,
      analysis_timestamp |-> utcnow ]

\* analyze_comprehensive_timeline from the await on: the narrative result
\* (or the exception that left symptom_timeline_analysis), the risk
\* assessment, the recommendations, the report
analysis_after_await(f, narrative, utcnow) ==
    IF narrative.raised THEN narrative
    ELSE LET risk_assessment ==
                 _calculate_comprehensive_risk(f.sorted_timeline,
                     f.rapid_onset_patterns, f.severity_trends,
                     f.emergency_indicators)
             recommendations ==
                 _generate_timeline_recommendations(f.rapid_onset_patterns,
                     f.severity_trends, f.cyclical_patterns,
                     f.emergency_indicators, risk_assessment)
         IN  Return(comprehensive_report(f, narrative.value, risk_assessment,
                                         recommendations, utcnow))

(***************************************************************************)
(* State                                                                   *)
(***************************************************************************)
VARIABLES
    timeline,   \* the caller's list of SymptomTimelineEntry
    pc,         \* "idle", "awaiting" (a model call in flight), "done", "raised"
    frame,      \* locals of analyze_comprehensive_timeline across the await
    calls,      \* the model calls of this request, in order, with their outcome
    report,     \* what analyze_comprehensive_timeline returned
    now,        \* the last reading of datetime.utcnow()
    prev,       \* the caller's record of its earlier call: input, report, calls
    other       \* a second call in flight on timeline_analyzer: input, pc,
                \* locals, report

vars == <<timeline, pc, frame, calls, report, now, prev, other>>

Entry(t, s, v) == [timestamp |-> t, symptom |-> s, severity |-> v]

\* the responses a model may give, and the ways _make_api_call may raise
Responses == { "{\"summary\": \"ok\", \"recommendations\": []}", "not json" }
ApiErrors == { "API error: 500", "No response choices returned", "ReadTimeout" }

\* before the caller's first call, the clock reading clock0
NoCallYet(clock0) ==
    /\ pc = "idle"
    /\ frame = None
    /\ calls = <<>>
    /\ report = None
    /\ now = clock0
    /\ prev = None
    /\ other = None

\* `if not timeline: return self._create_empty_analysis()`
BeginEmpty ==
    /\ pc = "idle"
    /\ timeline = <<>>
    /\ \E utcnow \in now..MaxClock :
          /\ now' = utcnow
          /\ report' = Some(_create_empty_analysis(utcnow))
    /\ pc' = "done"
    /\ UNCHANGED <<timeline, frame, calls, prev, other>>

\* _make_api_call(model, ...) is awaited
ModelCall(model) == [model |-> model, outcome |-> "in flight"]

\* the calls so far once the call in flight has ended with `outcome`
Ended(called, outcome) == [called EXCEPT ![Len(called)].outcome = outcome]

\* timeline.sort(key=...): the caller's list sorted in place
timeline_sorted_in_place(tl) == sorted(tl)

\* the caller's list after sorted(timeline, key=...), which builds a new
\* list; the detectors sort and filter lists of their own
timeline_after_sorted(tl) == tl

\* sort, run the six detectors, enter symptom_timeline_analysis and
\* _call_specialized_model, which awaits the primary model
BeginAnalysis ==
    /\ pc = "idle"
    /\ timeline # <<>>
    /\ frame' = Some(detector_outputs(sorted(timeline)))
    /\ timeline' = timeline_after_sorted(timeline)
    /\ calls' = <<ModelCall(timeline_model_config.primary)>>
    /\ pc' = "awaiting"
    /\ UNCHANGED <<report, now, prev, other>>

\* the rest of the call once symptom_timeline_analysis has returned the
\* narrative (or an exception has left it): risk, recommendations, report,
\* with one reading of the clock
\* the detectors' results kept on the shared instance, where a second call
\* that has begun has put its own
locals_on_instance(own, second) ==
    IF second # None THEN second[1].frame ELSE own

\* the locals of a call when it resumes after the await: its own, whatever
\* a second call has done meanwhile (the instance holds only the keyword
\* lists set in __init__)
locals_at_resume(own, second) == own

Finish(narrative) ==
    /\ frame' = None
    /\ \E utcnow \in now..MaxClock :
          LET result == analysis_after_await(locals_at_resume(frame[1], other),
                                             narrative, utcnow)
          IN  /\ now' = utcnow
              /\ IF result.raised
                 THEN pc' = "raised" /\ report' = None
                 ELSE pc' = "done" /\ report' = Some(result.value)

\* _make_api_call returns the model's text: _call_specialized_model returns
\* it to symptom_timeline_analysis
ApiCallReturns ==
    /\ pc = "awaiting"
    /\ \E narrative \in { symptom_timeline_analysis(frame[1].sorted_timeline,
                                                    Return(response)) :
                             response \in Responses } :
          Finish(narrative)
    /\ calls' = Ended(calls, "responded")
    /\ UNCHANGED <<timeline, prev, other>>

\* the backups tried in turn again and again
next_backup_retrying(called) ==
    Some(timeline_model_config.backup[
             ((Len(called) - 1) % Len(timeline_model_config.backup)) + 1])

\* the backups taken from the end of the list
next_backup_reversed(called) ==
    IF Len(called) <= Len(timeline_model_config.backup)
    THEN Some(timeline_model_config.backup[
                  Len(timeline_model_config.backup) + 1 - Len(called)])
    ELSE None

\* for backup_model in model_config["backup"]: the backup that follows the
\* models called so far, if any
next_backup(called) ==
    IF Len(called) <= Len(timeline_model_config.backup)
    THEN Some(timeline_model_config.backup[Len(called)])
    ELSE None

\* _make_api_call raises (`except Exception` takes every error alike) and a
\* backup model is left: it is called next
ApiCallFailsTryBackup ==
    /\ pc = "awaiting"
    /\ \E err \in ApiErrors : Raise(err).raised
    /\ next_backup(calls) # None
    /\ calls' = Append(Ended(calls, "failed"), ModelCall(next_backup(calls)[1]))
    /\ UNCHANGED <<timeline, pc, frame, report, now, prev, other>>

\* _make_api_call raises and no backup is left: _call_specialized_model
\* raises "All specialized models failed"
ApiCallFailsAll ==
    /\ pc = "awaiting"
    /\ \E err \in ApiErrors : Raise(err).raised
    /\ next_backup(calls) = None
    /\ Finish(symptom_timeline_analysis(frame[1].sorted_timeline,
                                        Raise("All specialized models failed")))
    /\ calls' = Ended(calls, "failed")
    /\ UNCHANGED <<timeline, prev, other>>

\* the caller keeps the report and calls once more with the same entries, in
\* the same or another order
CallAgain ==
    /\ pc = "done"
    /\ prev = None
    /\ prev' = Some([timeline |-> timeline, report |-> report[1], calls |-> calls])
    /\ \E p \in Permutations(1..Len(timeline)) :
          timeline' = [k \in 1..Len(timeline) |-> timeline[p[k]]]
    /\ pc' = "idle"
    /\ calls' = <<>>
    /\ report' = None
    /\ UNCHANGED <<frame, now, other>>

\* while the call is suspended at the narrative request, a second call on
\* the same entries, in the same or another order, sorts, runs the
\* detectors and is suspended in turn
OtherBegins ==
    /\ pc = "awaiting"
    /\ prev # None
    /\ other = None
    /\ \E p \in Permutations(1..Len(timeline)) :
          LET submitted == [k \in 1..Len(timeline) |-> timeline[p[k]]]
          IN  other' = Some([ timeline |-> submitted,
                              pc |-> "awaiting",
                              frame |-> detector_outputs(sorted(submitted)),
                              report |-> None ])
    /\ UNCHANGED <<timeline, pc, frame, calls, report, now, prev>>

\* the second call resumes with a narrative or with the fallback and returns
OtherReturns ==
    /\ other # None
    /\ other[1].pc = "awaiting"
    /\ \E outcome \in { Return(response) : response \in Responses }
                        \cup { Raise("All specialized models failed") } :
          \E utcnow \in now..MaxClock :
              LET narrative == symptom_timeline_analysis(
                                   other[1].frame.sorted_timeline, outcome)
                  result == analysis_after_await(
                                locals_at_resume(other[1].frame, None),
                                narrative, utcnow)
              IN  /\ now' = utcnow
                  /\ other' = Some([other[1] EXCEPT
                                      !.pc = IF result.raised THEN "raised" ELSE "done",
                                      !.report = IF result.raised THEN None
                                                 ELSE Some(result.value)])
    /\ UNCHANGED <<timeline, pc, frame, calls, report, prev>>

Next ==
    \/ BeginEmpty
    \/ BeginAnalysis
    \/ ApiCallReturns
    \/ ApiCallFailsTryBackup
    \/ ApiCallFailsAll

NextTwice ==
    \/ Next
    \/ CallAgain

(***************************************************************************)
(* Inputs                                                                  *)
(***************************************************************************)
NonDecreasing(ts) == \A k \in 1..(Len(ts) - 1) : ts[k] <= ts[k + 1]

\* a timeline of at most n entries submitted in chronological order, its
\* timestamps from stamps and its (symptom, severity) pairs from labels
ChronologicalInput(n, stamps, labels) ==
    \E m \in 0..n :
        \E ts \in [1..m -> stamps] :
            /\ NonDecreasing(ts)
            /\ \E ls \in [1..m -> labels] :
                  timeline = [k \in 1..m |-> Entry(ts[k], ls[k][1], ls[k][2])]

\* Spec: one call; entries at 0:00, 0:30, 1:00 and 25:00
Stamps == {0, 2, 4, 100}
Labels ==
    { <<"Shortness of Breath", Some(6)>>, <<"Shortness of Breath", Some(10)>>,
      <<"nausea", None>>, <<"nausea", Some(2)>>, <<"nausea", Some(6)>> }

Init == ChronologicalInput(MaxLen, Stamps, Labels) /\ NoCallYet(MaxClock)
Spec == Init /\ [][Next]_vars

\* SpecOnset: one call on entries at 0:00, 0:15, 0:30 and 1:15; the longest
\* timelines draw on two of the labels
OnsetStamps == {0, 1, 2, 5}
OnsetLabels ==
    { <<"Shortness of Breath", None>>, <<"nausea", None>>,
      <<"nausea", Some(6)>>, <<"nausea", Some(9)>> }
LongOnsetLabels == { <<"Shortness of Breath", None>>, <<"nausea", Some(6)>> }

InitOnset ==
    /\ \/ ChronologicalInput(MaxLen, OnsetStamps, OnsetLabels)
       \/ ChronologicalInput(MaxLen + 1, OnsetStamps, LongOnsetLabels)
    /\ NoCallYet(MaxClock)
SpecOnset == InitOnset /\ [][Next]_vars

\* SpecTwice: two calls on the same entries, each submitted once, in any
\* order, the clock running
TwiceEntries ==
    { Entry(0, "Chest Pain", Some(9)), Entry(2, "Shortness of Breath", Some(6)),
      Entry(2, "nausea", Some(2)), Entry(4, "nausea", None) }

AnyOrderInput ==
    \E m \in 0..MaxLen :
        /\ timeline \in [1..m -> TwiceEntries]
        /\ \A j, k \in 1..m : timeline[j] = timeline[k] => j = k

InitTwice == AnyOrderInput /\ NoCallYet(0)
SpecTwice == InitTwice /\ [][NextTwice]_vars

\* SpecInterleaved: a call alone, then a call on the same entries with
\* another call interleaved at its await; two of the entries share a
\* timestamp, so that the order of submission shows in the patterns
InterleavedEntries ==
    { Entry(0, "Chest Pain", Some(9)), Entry(2, "Shortness of Breath", Some(6)),
      Entry(2, "nausea", Some(2)) }

InitInterleaved ==
    /\ \E m \in 0..Cardinality(InterleavedEntries) :
          /\ timeline \in [1..m -> InterleavedEntries]
          /\ \A j, k \in 1..m : timeline[j] = timeline[k] => j = k
    /\ NoCallYet(MaxClock)

NextInterleaved ==
    \/ NextTwice
    \/ OtherBegins
    \/ OtherReturns

SpecInterleaved == InitInterleaved /\ [][NextInterleaved]_vars

\* SpecRecent: one call on up to MaxLen + 3 entries of one symptom, recorded
\* 25 hours apart, some without a severity
RecentLabels == { <<"nausea", None>>, <<"nausea", Some(6)>>, <<"nausea", Some(9)>> }

InitRecent ==
    /\ \E m \in 0..(MaxLen + 3) :
          \E ls \in [1..m -> RecentLabels] :
              timeline = [k \in 1..m |-> Entry(100 * k, ls[k][1], ls[k][2])]
    /\ NoCallYet(MaxClock)
SpecRecent == InitRecent /\ [][Next]_vars

\* SpecTrend: one call on entries of one symptom, written in two ways, at
\* 0:00, 2:00, 4:00 and 20:00
TrendStamps == {0, 8, 16, 80}
TrendLabels ==
    { <<"nausea", Some(3)>>, <<"nausea", Some(5)>>, <<"nausea", Some(7)>>,
      <<"Nausea", Some(3)>>, <<"nausea", None>> }

InitTrend == ChronologicalInput(MaxLen, TrendStamps, TrendLabels) /\ NoCallYet(MaxClock)
SpecTrend == InitTrend /\ [][Next]_vars

\* SpecCycle: one call on entries without severity at 0:00, 0:30, 1:00, 1:30,
\* 2:00 and 3:00; the longest timelines record one symptom only
CycleStamps == {0, 2, 4, 6, 8, 12}
CycleLabels == { <<"nausea", None>>, <<"Nausea", None>>, <<"headache", None>> }

InitCycle ==
    /\ \/ ChronologicalInput(MaxLen, CycleStamps, CycleLabels)
       \/ ChronologicalInput(MaxLen + 2, CycleStamps, { <<"nausea", None>> })
    /\ NoCallYet(MaxClock)
SpecCycle == InitCycle /\ [][Next]_vars

\* SpecCluster: one call on entries without severity at 0:00, 4:00, 5:00,
\* 24:00 and 30:00; the longest timelines record a different symptom in
\* every entry
ClusterStamps == {0, 16, 20, 96, 120}
ClusterLabels == { <<"nausea", None>>, <<"Nausea", None>>, <<"headache", None>> }
ClusterSymptoms ==
    << "headache", "dizziness", "fatigue", "nausea", "Chest Pain",
       "Shortness of Breath" >>

InitCluster ==
    /\ \/ ChronologicalInput(MaxLen, ClusterStamps, ClusterLabels)
       \/ \E m \in 0..(MaxLen + 2) :
              \E ts \in [1..m -> ClusterStamps] :
                  /\ NonDecreasing(ts)
                  /\ timeline = [k \in 1..m |->
                                    Entry(ts[k], ClusterSymptoms[k], None)]
    /\ NoCallYet(MaxClock)
SpecCluster == InitCluster /\ [][Next]_vars

\* SpecMonitor: one call on entries at 0:00, 1:00 and 25:00
MonitorStamps == {0, 4, 100}
MonitorLabels ==
    { <<"nausea", Some(2)>>, <<"nausea", Some(6)>>, <<"nausea", Some(10)>>,
      <<"headache", None>> }

InitMonitor ==
    ChronologicalInput(MaxLen, MonitorStamps, MonitorLabels) /\ NoCallYet(MaxClock)
SpecMonitor == InitMonitor /\ [][Next]_vars

\* SpecEscalation: one call on entries of one symptom with severities 1, 5
\* and 9 at 0:00, 1:00 and 25:00
EscalationLabels ==
    { <<"nausea", Some(1)>>, <<"nausea", Some(5)>>, <<"nausea", Some(9)>> }

InitEscalation ==
    ChronologicalInput(MaxLen, MonitorStamps, EscalationLabels) /\ NoCallYet(MaxClock)
SpecEscalation == InitEscalation /\ [][Next]_vars

\* SpecCalls: one call on no entry or on a single entry, each step of which
\* is taken in the end: a model call in flight returns or raises within its
\* timeout of 60 seconds, and the event loop resumes the coroutine that
\* awaits it
InitCalls == ChronologicalInput(1, Stamps, Labels) /\ NoCallYet(MaxClock)
SpecCalls == InitCalls /\ [][Next]_vars /\ WF_vars(Next)

(***************************************************************************)
(* Properties of the returned report                                       *)
(***************************************************************************)
Returned == pc = "done"

\* the report of the call that has returned
Analysis == report[1]

IndicesWhere(patterns, P(_)) == { k \in 1..Len(patterns) : P(patterns[k]) }

IsCritical(p) == p.urgency = "critical"
IsHighUrgency(p) == p.urgency = "high"
IsHighOnset(p) == p.urgency_level = "high"
IsModerateOnset(p) == p.urgency_level = "moderate"
IsClusterPattern(p) == p.type = "emergency_symptom_cluster"

\* the counts that the rules of the risk score weigh, read off the report
CriticalCount ==
    Cardinality(IndicesWhere(Analysis.pattern_analysis.emergency_indicators, IsCritical))
HighCount ==
    Cardinality(IndicesWhere(Analysis.pattern_analysis.emergency_indicators, IsHighUrgency))
HighOnsetCount ==
    Cardinality(IndicesWhere(Analysis.pattern_analysis.rapid_onset, IsHighOnset))
ModerateOnsetCount ==
    Cardinality(IndicesWhere(Analysis.pattern_analysis.rapid_onset, IsModerateOnset))
IncreasingCount ==
    Cardinality(IndicesWhere(Analysis.pattern_analysis.severity_trends, IsIncreasing))

\* the severities among the five most recent entries
RecentSeverities ==
    LET chronological == sorted(timeline)
        n == Len(chronological)
    IN  { Severity(chronological[k]) :
              k \in { j \in 1..n : j > n - 5 /\ HasSeverity(chronological[j]) } }

RecentBonus ==
    IF \E v \in RecentSeverities : v >= 8 THEN 15
    ELSE IF \E v \in RecentSeverities : v >= 6 THEN 8
    ELSE 0

RuleSum ==
    40 * CriticalCount + 25 * HighCount + 20 * HighOnsetCount
        + 10 * ModerateOnsetCount + 5 * IncreasingCount + RecentBonus

\* C1: for a non-empty timeline the reported risk_score lies in 0..100, and
\* risk_level, immediate_attention_required and
\* emergency_evaluation_recommended are the threshold functions of that
\* reported score (>= 50 critical, >= 30 high, >= 15 moderate, else low;
\* >= 30; >= 50), also when the rules sum to more than 100
C1_LevelAndFlagsFollowReportedScore ==
    Returned /\ timeline # <<>> =>
        LET ra == Analysis.risk_assessment
        IN  /\ ra.risk_score \in 0..100
            /\ ra.risk_level =
                   (IF ra.risk_score >= 50 THEN "critical"
                    ELSE IF ra.risk_score >= 30 THEN "high"
                    ELSE IF ra.risk_score >= 15 THEN "moderate"
                    ELSE "low")
            /\ ra.immediate_attention_required = (ra.risk_score >= 30)
            /\ ra.emergency_evaluation_recommended = (ra.risk_score >= 50)

\* a report whose rules sum to more than 100
C1_SumAbove100 ==
    /\ Returned /\ timeline # <<>>
    /\ RuleSum > 100
    /\ Analysis.risk_assessment.risk_level = "critical"

\* C2: for a non-empty timeline risk_score = min(100, 40*C + 25*H + 20*RH
\* + 10*RM + 5*T + B) with C, H the critical and high emergency indicators,
\* RH, RM the high and moderate rapid-onset patterns, T the increasing
\* severity trends and B = 15, 8 or 0 by the recent maximum severity
C2_ScoreIsWeightedSum ==
    Returned /\ timeline # <<>> =>
        Analysis.risk_assessment.risk_score = Min(100, RuleSum)

\* an escalation, a moderate rapid onset, an increasing trend and a recent
\* severity of 6 add up to 25 + 10 + 5 + 8
C2_FourTerms ==
    /\ Returned /\ timeline # <<>>
    /\ HighCount = 1 /\ ModerateOnsetCount = 1 /\ IncreasingCount = 1
    /\ RecentBonus = 8
    /\ Analysis.risk_assessment.risk_score = 48

\* the entries whose symptom text contains an emergency keyword
EmergencyEntries == { k \in 1..Len(timeline) : IsEmergencySymptom(timeline[k]) }

\* C3: when at least two entries contain an emergency keyword, however far
\* apart, the report has exactly one emergency_symptom_cluster pattern, of
\* urgency critical, a risk_score >= 40, a risk_level of high or critical,
\* and a first recommendation of category emergency and priority critical
C3_TwoEmergencyEntries ==
    Returned /\ Cardinality(EmergencyEntries) >= 2 =>
        LET indicators == Analysis.pattern_analysis.emergency_indicators
            clusters == IndicesWhere(indicators, IsClusterPattern)
        IN  /\ Cardinality(clusters) = 1
            /\ \A k \in clusters : indicators[k].urgency = "critical"
            /\ Analysis.risk_assessment.risk_score >= 40
            /\ Analysis.risk_assessment.risk_level \in {"high", "critical"}
            /\ Analysis.clinical_recommendations[1].category = "emergency"
            /\ Analysis.clinical_recommendations[1].priority = "critical"

\* two emergency entries more than a day apart, the risk level high
C3_TwoADayApart ==
    /\ Returned
    /\ Cardinality(EmergencyEntries) = 2
    /\ \E j, k \in EmergencyEntries :
          timeline[k].timestamp - timeline[j].timestamp > 96
    /\ Analysis.risk_assessment.risk_level = "high"

\* C8: an empty timeline returns, without a model call and without error, a
\* report with total_entries 0, every pattern list empty, risk_level
\* "unknown", risk_score 0, both flags false and exactly one recommendation,
\* of category documentation
C8_EmptyTimeline ==
    timeline = <<>> =>
        /\ pc \in {"idle", "done"}
        /\ calls = <<>>
        /\ Returned =>
              /\ Analysis.timeline_metadata.total_entries = 0
              /\ \A list \in DOMAIN Analysis.pattern_analysis :
                    Analysis.pattern_analysis[list] = <<>>
              /\ DOMAIN Analysis.pattern_analysis =
                     { "rapid_onset", "severity_trends", "cyclical_patterns",
                       "symptom_clusters", "temporal_associations",
                       "emergency_indicators" }
              /\ Analysis.risk_assessment.risk_level = "unknown"
              /\ Analysis.risk_assessment.risk_score = 0
              /\ ~Analysis.risk_assessment.immediate_attention_required
              /\ ~Analysis.risk_assessment.emergency_evaluation_recommended
              /\ Len(Analysis.clinical_recommendations) = 1
              /\ Analysis.clinical_recommendations[1].category = "documentation"

\* the call on the empty timeline has returned
C8_EmptyReturned == Returned /\ timeline = <<>> /\ report # None

(***************************************************************************)
(* Properties of the model calls                                           *)
(***************************************************************************)
AllFailed(cs) == cs # <<>> /\ \A k \in 1..Len(cs) : cs[k].outcome = "failed"
Responded(cs) == cs # <<>> /\ cs[Len(cs)].outcome = "responded"

\* C5 as stated: once the primary call has failed at most one further model
\* call is made, so that a request makes at most 2 model calls
C5_AtMostTwoCalls == Len(calls) <= 2

\* C5: once the primary call has failed, at most two further model calls are
\* made, one to each configured backup model and each only after the call
\* before it has failed, so that a request makes at most 3 model calls
C5_AtMostThreeCalls ==
    /\ Len(calls) <= 3
    /\ \A k \in 1..Len(calls) :
          /\ k < Len(calls) => calls[k].outcome = "failed"
          /\ \A j \in 1..(k - 1) : calls[j].model # calls[k].model

\* the request is reported as failed after the primary and both backups
C5_ThreeCallsFailed ==
    /\ Returned
    /\ Len(calls) = 3 /\ AllFailed(calls)
    /\ Analysis.ai_analysis.ai_insights.error = "All specialized models failed"

(***************************************************************************)
(* Properties of _detect_rapid_onset                                       *)
(***************************************************************************)
\* the entries from entry i on with a timestamp in [t_i, t_i + 1h]
WindowOf(tl, i) ==
    { j \in i..Len(tl) : tl[j].timestamp <= tl[i].timestamp + 4 }

\* the entries that have at least two later entries in their window
WindowStarts(tl) == { i \in 1..Len(tl) : Cardinality(WindowOf(tl, i)) >= 3 }

\* the k-th of them
KthStart(tl, k) ==
    CHOOSE i \in WindowStarts(tl) :
        Cardinality({ j \in WindowStarts(tl) : j <= i }) = k

RECURSIVE SeveritySum(_, _)
SeveritySum(tl, S) ==
    IF S = {} THEN 0
    ELSE LET j == CHOOSE x \in S : TRUE
         IN  Severity(tl[j]) + SeveritySum(tl, S \ {j})

\* C9: a rapid-onset pattern has urgency_level "high" exactly when an entry
\* of its group contains an emergency keyword or the average severity of the
\* group's entries that carry one is >= 7, and "moderate" otherwise, also
\* when no entry of the group carries a severity
C9_UrgencyOfRapidOnset ==
    Returned /\ timeline # <<>> =>
        LET tl == sorted(timeline)
            patterns == Analysis.pattern_analysis.rapid_onset
        IN  \A k \in 1..Len(patterns) :
                k <= Cardinality(WindowStarts(tl)) =>
                    LET group == WindowOf(tl, KthStart(tl, k))
                        bearing == { j \in group : tl[j].severity # None }
                    IN  patterns[k].urgency_level =
                            (IF \/ \E j \in group : IsEmergencySymptom(tl[j])
                                \/ /\ bearing # {}
                                   /\ SeveritySum(tl, bearing)
                                          >= 7 * Cardinality(bearing)
                             THEN "high" ELSE "moderate")

\* entries at t, t + 15 min and t + 30 min, one of them "Shortness of
\* Breath", give a pattern of urgency high
C9_BreathlessWithinHalfAnHour ==
    /\ Returned
    /\ Len(timeline) = 3
    /\ timeline[2].timestamp = timeline[1].timestamp + 1
    /\ timeline[3].timestamp = timeline[1].timestamp + 2
    /\ \E k \in 1..3 :
          /\ timeline[k].symptom = "Shortness of Breath"
          /\ \A j \in (1..3) \ {k} : ~IsEmergencySymptom(timeline[j])
    /\ Len(Analysis.pattern_analysis.rapid_onset) = 1
    /\ Analysis.pattern_analysis.rapid_onset[1].urgency_level = "high"

\* C10: the number of rapid-onset patterns is the number of entries i that
\* have, themselves included, at least 3 entries with timestamps in
\* [t_i, t_i + 1h], the bound inclusive; n >= 3 entries all within one hour
\* give n - 2 patterns
C10_OnePatternPerWindowStart ==
    Returned /\ timeline # <<>> =>
        LET tl == sorted(timeline)
            n == Len(tl)
            patterns == Analysis.pattern_analysis.rapid_onset
        IN  /\ Len(patterns) = Cardinality(WindowStarts(tl))
            /\ (n >= 3 /\ tl[n].timestamp - tl[1].timestamp <= 4) =>
                   Len(patterns) = n - 2

\* four entries, the last exactly one hour after the first: two patterns
C10_FourWithinTheHour ==
    /\ Returned
    /\ Len(timeline) = 4
    /\ timeline[4].timestamp - timeline[1].timestamp = 4
    /\ Len(Analysis.pattern_analysis.rapid_onset) = 2

(***************************************************************************)
(* Properties of two calls on the same entries                             *)
(***************************************************************************)
\* the caller's record of its first call
Earlier == prev[1]

CalledTwice == Returned /\ prev # None

ReportFields ==
    { "timeline_metadata", "pattern_analysis", "ai_analysis", "risk_assessment",
      "clinical_recommendations", "analysis_timestamp" }

\* C4: when every model call of the narrative fails, no exception reaches the
\* caller and the report is complete; its pattern_analysis, risk_assessment
\* and clinical_recommendations are those of a call in which a model
\* responded, and its ai_analysis is the fallback payload, marked
\* fallback = true and carrying the error message
C4_NarrativeFailureKeepsReport ==
    /\ pc # "raised"
    /\ Returned /\ AllFailed(calls) =>
          /\ DOMAIN Analysis = ReportFields
          /\ Analysis.ai_analysis.ai_insights =
                 [error |-> "All specialized models failed", fallback |-> TRUE]
    /\ /\ CalledTwice /\ timeline = Earlier.timeline
       /\ \/ AllFailed(calls) /\ Responded(Earlier.calls)
          \/ Responded(calls) /\ AllFailed(Earlier.calls)
       => /\ Analysis.pattern_analysis = Earlier.report.pattern_analysis
          /\ Analysis.risk_assessment = Earlier.report.risk_assessment
          /\ Analysis.clinical_recommendations
                 = Earlier.report.clinical_recommendations

\* a model responded in the first call, every model failed in the second
C4_FailedAfterResponded ==
    /\ CalledTwice /\ timeline = Earlier.timeline
    /\ AllFailed(calls) /\ Responded(Earlier.calls)
    /\ Analysis.risk_assessment.risk_score > 0
    /\ Analysis.ai_analysis.ai_insights.fallback

DistinctTimestamps ==
    \A j, k \in 1..Len(timeline) :
        j # k => timeline[j].timestamp # timeline[k].timestamp

\* C6: when the timestamps are pairwise distinct, every order of submitting
\* the entries gives the same timeline_metadata, pattern_analysis,
\* risk_assessment and clinical_recommendations
C6_OrderOfSubmission ==
    CalledTwice /\ DistinctTimestamps =>
        /\ Analysis.timeline_metadata = Earlier.report.timeline_metadata
        /\ Analysis.pattern_analysis = Earlier.report.pattern_analysis
        /\ Analysis.risk_assessment = Earlier.report.risk_assessment
        /\ Analysis.clinical_recommendations
               = Earlier.report.clinical_recommendations

\* three entries of distinct timestamps, submitted in two different orders
\* of which the second is not chronological
C6_Reordered ==
    /\ CalledTwice /\ DistinctTimestamps
    /\ Len(timeline) = 3
    /\ timeline # Earlier.timeline
    /\ timeline # sorted(timeline)
    /\ Analysis.pattern_analysis.rapid_onset # <<>>

SameCall == CalledTwice /\ timeline = Earlier.timeline /\ calls = Earlier.calls

\* C7 as stated: two calls on the same input with the same model outcomes
\* return reports identical in every field, analysis_timestamp included
C7_IdenticalInEveryField == SameCall => Analysis = Earlier.report

\* C7: two calls on the same input with the same model outcomes return
\* reports identical in every field other than analysis_timestamp, which is
\* the wall-clock time of the call
C7_IdenticalButForTimestamp ==
    SameCall =>
        /\ DOMAIN Analysis = DOMAIN Earlier.report
        /\ \A field \in DOMAIN Analysis \ {"analysis_timestamp"} :
              Analysis[field] = Earlier.report[field]
        /\ Analysis.analysis_timestamp \in Earlier.report.analysis_timestamp..now

\* the same call made again at a later time
C7_RepeatedLater ==
    /\ SameCall
    /\ timeline # <<>>
    /\ Analysis.analysis_timestamp > Earlier.report.analysis_timestamp

\* the symptoms of a pattern, letter case ignored
DistinctSymptoms(symptoms) == { lower(symptoms[k]) : k \in 1..Len(symptoms) }

\* C11 as stated: every rapid-onset pattern covers at least three distinct
\* symptoms; a window of three or more entries with fewer than three
\* distinct labels gives no pattern
C11_ThreeDistinctSymptoms ==
    Returned /\ timeline # <<>> =>
        \A k \in 1..Len(Analysis.pattern_analysis.rapid_onset) :
            Cardinality(DistinctSymptoms(
                Analysis.pattern_analysis.rapid_onset[k].symptoms)) >= 3

\* C11: every rapid-onset pattern covers at least three entries, and a
\* one-hour window that holds three or more entries gives a pattern whether
\* or not their labels differ
C11_ThreeEntries ==
    Returned /\ timeline # <<>> =>
        LET tl == sorted(timeline)
            patterns == Analysis.pattern_analysis.rapid_onset
        IN  /\ \A k \in 1..Len(patterns) :
                  /\ patterns[k].symptom_count >= 3
                  /\ Len(patterns[k].symptoms) = patterns[k].symptom_count
            /\ (\E i \in 1..Len(tl) : Cardinality(WindowOf(tl, i)) >= 3)
                   => patterns # <<>>

\* the same symptom recorded three times within the hour gives a pattern
C11_SameSymptomThreeTimes ==
    /\ Returned
    /\ Len(timeline) = 3
    /\ Len(Analysis.pattern_analysis.rapid_onset) = 1
    /\ Cardinality(DistinctSymptoms(
           Analysis.pattern_analysis.rapid_onset[1].symptoms)) = 1

(***************************************************************************)
(* Properties of _detect_emergency_patterns                                *)
(***************************************************************************)
IsEscalationPattern(p) == p.type = "rapid_escalation"

\* the pairs <<a, b>> of entries that carry a severity with no entry that
\* carries one between them
SeverityNeighbours(tl) ==
    { pair \in (1..Len(tl)) \X (1..Len(tl)) :
        /\ pair[1] < pair[2]
        /\ tl[pair[1]].severity # None /\ tl[pair[2]].severity # None
        /\ \A j \in (pair[1] + 1)..(pair[2] - 1) : tl[j].severity = None }

\* those of them that rise by 4 or more within two hours
EscalatingNeighbours(tl) ==
    { pair \in SeverityNeighbours(tl) :
        /\ Severity(tl[pair[2]]) - Severity(tl[pair[1]]) >= 4
        /\ tl[pair[2]].timestamp - tl[pair[1]].timestamp <= 8 }

\* the k-th of them in timeline order
KthEscalating(tl, k) ==
    CHOOSE pair \in EscalatingNeighbours(tl) :
        Cardinality({ q \in EscalatingNeighbours(tl) : q[1] <= pair[1] }) = k

\* C12: for each pair of entries adjacent among the entries that carry a
\* severity whose severity rises by >= 4 within <= 2 hours there is one
\* rapid_escalation pattern of urgency high, and there is none for any other
\* pair
C12_EscalationAmongSeverityBearing ==
    Returned /\ timeline # <<>> =>
        LET tl == sorted(timeline)
            indicators == Analysis.pattern_analysis.emergency_indicators
            escalations ==
                [k \in 1..Cardinality(IndicesWhere(indicators, IsEscalationPattern))
                    |-> indicators[k]]
        IN  /\ Len(escalations) = Cardinality(EscalatingNeighbours(tl))
            /\ \A k \in 1..Len(escalations) :
                  LET pair == KthEscalating(tl, k)
                  IN  /\ escalations[k].urgency = "high"
                      /\ escalations[k].symptoms
                             = <<tl[pair[1]].symptom, tl[pair[2]].symptom>>
                      /\ escalations[k].severity_increase
                             = Severity(tl[pair[2]]) - Severity(tl[pair[1]])

(***************************************************************************)
(* Properties of the recent-severity rule                                  *)
(***************************************************************************)
\* what the rules other than the recent-severity rule add up to
PatternSum ==
    40 * CriticalCount + 25 * HighCount + 20 * HighOnsetCount
        + 10 * ModerateOnsetCount + 5 * IncreasingCount

\* the severities of the five most recent entries that carry a severity
LatestFiveSeverities ==
    LET tl == sorted(timeline)
        bearing == { j \in 1..Len(tl) : tl[j].severity # None }
    IN  { Severity(tl[j]) :
              j \in { i \in bearing :
                        Cardinality({ h \in bearing : h > i }) < 5 } }

\* C13: the recent-severity rule reads the (up to) five most recent entries
\* that carry a severity: a maximum >= 8 among them adds 15 to the score,
\* else one >= 6 adds 8, also when the last five entries carry no severity
\* but earlier entries do
C13_RecentAmongSeverityBearing ==
    Returned /\ timeline # <<>> =>
        LET bonus == IF \E v \in LatestFiveSeverities : v >= 8 THEN 15
                     ELSE IF \E v \in LatestFiveSeverities : v >= 6 THEN 8
                     ELSE 0
        IN  /\ Analysis.risk_assessment.risk_score = Min(100, PatternSum + bonus)
            /\ (bonus = 15) <=>
                   InList("Recent severe symptoms (8+/10)",
                          Analysis.risk_assessment.risk_factors)
            /\ (bonus = 8) <=>
                   InList("Recent moderate-severe symptoms (6-7/10)",
                          Analysis.risk_assessment.risk_factors)

(***************************************************************************)
(* Properties of _analyze_severity_trends                                  *)
(***************************************************************************)
\* the symptoms of the timeline, letter case ignored
SymptomKeys(tl) == { lower(tl[k].symptom) : k \in 1..Len(tl) }

\* the entries of a symptom that carry a severity
SeverityBearing(tl, key) ==
    { k \in 1..Len(tl) : lower(tl[k].symptom) = key /\ tl[k].severity # None }

\* the sum over pairs of entries of dt * dt (squared) or dt * dseverity
RECURSIVE PairwiseSum(_, _, _)
PairwiseSum(tl, pairs, squared) ==
    IF pairs = {} THEN 0
    ELSE LET p == CHOOSE q \in pairs : TRUE
             dt == tl[p[2]].timestamp - tl[p[1]].timestamp
             ds == Severity(tl[p[2]]) - Severity(tl[p[1]])
         IN  dt * (IF squared THEN dt ELSE ds)
                 + PairwiseSum(tl, pairs \ {p}, squared)

PairsOf(S) == { p \in S \X S : p[1] < p[2] }

\* the least-squares slope, in severity per quarter hour, as <<num, den>>
LeastSquares(tl, G) ==
    << PairwiseSum(tl, PairsOf(G), FALSE), PairwiseSum(tl, PairsOf(G), TRUE) >>

TrendsOf(key) ==
    { k \in 1..Len(Analysis.pattern_analysis.severity_trends) :
          Analysis.pattern_analysis.severity_trends[k].symptom = key }

\* C14: every symptom (letter case ignored) with at least three entries
\* that carry a severity has one trend; its slope is the least-squares slope
\* of severity against hours, its direction is stable when |slope| < 0.1,
\* increasing when slope >= 0.1 and decreasing when slope <= -0.1, and an
\* increasing trend puts a worsening-trend entry into risk_factors
C14_LeastSquaresTrend ==
    Returned /\ timeline # <<>> =>
        LET tl == sorted(timeline)
            trends == Analysis.pattern_analysis.severity_trends
        IN  /\ \A k \in 1..Len(trends) : trends[k].symptom \in SymptomKeys(tl)
            /\ \A key \in SymptomKeys(tl) :
                  LET G == SeverityBearing(tl, key)
                      ls == LeastSquares(tl, G)
                  IN  /\ Cardinality(TrendsOf(key))
                             = (IF Cardinality(G) >= 3 THEN 1 ELSE 0)
                      /\ \A k \in TrendsOf(key) :
                            ls[2] # 0 =>
                              \* slope per hour = 4 * slope per quarter hour
                              /\ trends[k].slope[1] * ls[2]
                                     = 4 * ls[1] * trends[k].slope[2]
                              /\ trends[k].trend_direction =
                                     (IF 10 * 4 * Abs(ls[1]) < ls[2] THEN "stable"
                                      ELSE IF ls[1] > 0 THEN "increasing"
                                      ELSE "decreasing")
            /\ (\E k \in 1..Len(trends) : trends[k].trend_direction = "increasing")
                   => \E j \in 1..Len(Analysis.risk_assessment.risk_factors) :
                          Analysis.risk_assessment.risk_factors[j]
                              = ToStr(IncreasingCount) \o " worsening symptom trends"

\* nausea of severity 3, 5, 7 at 0h, 2h, 4h: increasing, slope 1 per hour
C14_ThreeFiveSeven ==
    /\ Returned
    /\ timeline = << Entry(0, "nausea", Some(3)), Entry(8, "nausea", Some(5)),
                     Entry(16, "nausea", Some(7)) >>
    /\ Len(Analysis.pattern_analysis.severity_trends) = 1
    /\ Analysis.pattern_analysis.severity_trends[1].trend_direction = "increasing"
    /\ Analysis.pattern_analysis.severity_trends[1].slope[1]
           = Analysis.pattern_analysis.severity_trends[1].slope[2]
    /\ InList("1 worsening symptom trends", Analysis.risk_assessment.risk_factors)

(***************************************************************************)
(* Properties of _detect_cyclical_patterns                                 *)
(***************************************************************************)
\* the timestamps of the occurrences of a symptom, in order
OccurrenceTimes(tl, key) ==
    [k \in 1..Cardinality({ j \in 1..Len(tl) : lower(tl[j].symptom) = key }) |->
        tl[CHOOSE j \in 1..Len(tl) :
               /\ lower(tl[j].symptom) = key
               /\ Cardinality({ i \in 1..j : lower(tl[i].symptom) = key }) = k
          ].timestamp]

\* the quarter hours between consecutive occurrences
Gaps(times) == [k \in 1..(Len(times) - 1) |-> times[k + 1] - times[k]]

\* n^2 times the sum of the squared deviations of d from its mean
RECURSIVE ScaledDeviations(_, _)
ScaledDeviations(d, k) ==
    IF k > Len(d) THEN 0
    ELSE (Len(d) * d[k] - Sum(d)) * (Len(d) * d[k] - Sum(d))
             + ScaledDeviations(d, k + 1)

\* variance < tenths/10 * mean for intervals d of quarter hours, both taken
\* in hours: the sample variance is ScaledDeviations / (16 n^2 (n - 1)), the
\* mean Sum / (4 n)
VarianceUnderShareOfMean(d, tenths) ==
    5 * ScaledDeviations(d, 1) < 2 * tenths * Sum(d) * Len(d) * (Len(d) - 1)

CyclesOf(key) ==
    { k \in 1..Len(Analysis.pattern_analysis.cyclical_patterns) :
          Analysis.pattern_analysis.cyclical_patterns[k].symptom = key }

\* C15: a symptom (letter case ignored) with at least three occurrences has
\* a cyclical pattern exactly when the variance of the intervals between its
\* occurrences is < 0.5 times their mean; the pattern's consistency is high
\* exactly when the variance is < 0.3 times the mean, else moderate; equal
\* positive intervals give high, occurrences at one timestamp no pattern
C15_CyclicalByVariance ==
    Returned /\ timeline # <<>> =>
        LET tl == sorted(timeline)
            cycles == Analysis.pattern_analysis.cyclical_patterns
        IN  \A key \in SymptomKeys(tl) :
                LET d == Gaps(OccurrenceTimes(tl, key))
                IN  Len(d) >= 2 =>
                      /\ Cardinality(CyclesOf(key))
                             = (IF VarianceUnderShareOfMean(d, 5) THEN 1 ELSE 0)
                      /\ \A k \in CyclesOf(key) :
                            cycles[k].pattern_consistency =
                                (IF VarianceUnderShareOfMean(d, 3)
                                 THEN "high" ELSE "moderate")
                      /\ (\A j \in 1..Len(d) : d[j] = d[1] /\ d[1] > 0) =>
                             \E k \in CyclesOf(key) :
                                 cycles[k].pattern_consistency = "high"
                      /\ Sum(d) = 0 => CyclesOf(key) = {}

\* a symptom recorded five times, half an hour apart each time
C15_FiveAtEqualIntervals ==
    /\ Returned
    /\ Len(timeline) = 5
    /\ \A k \in 1..4 : timeline[k + 1].timestamp = timeline[k].timestamp + 2
    /\ Len(Analysis.pattern_analysis.cyclical_patterns) = 1
    /\ Analysis.pattern_analysis.cyclical_patterns[1].pattern_consistency = "high"
    /\ Analysis.pattern_analysis.cyclical_patterns[1].occurrence_count = 5

(***************************************************************************)
(* Properties of _identify_symptom_clusters                                *)
(***************************************************************************)
\* the labels recorded from entry i on, at most 4 hours after entry i
LabelsWithinFourHours(tl, i) ==
    { tl[j].symptom : j \in { j \in i..Len(tl) :
                                tl[j].timestamp - tl[i].timestamp <= 16 } }

\* the positions whose 4-hour window holds at least 80% of the labels S
RecurrencesOf(tl, S) ==
    { i \in 1..Len(tl) :
        5 * Cardinality(LabelsWithinFourHours(tl, i) \cap S)
            >= 4 * Cardinality(S) }

\* C16: every returned cluster lists at least two distinct symptoms, all
\* recorded within 4 hours forward of its first entry, and its frequency is
\* the number of positions whose 4-hour forward window (bound inclusive)
\* holds at least 80% of its symptoms, which is 2 or more
C16_ClustersRecur ==
    Returned /\ timeline # <<>> =>
        LET tl == sorted(timeline)
            clusters == Analysis.pattern_analysis.symptom_clusters
        IN  \A k \in 1..Len(clusters) :
                LET S == { clusters[k].symptoms[n] :
                               n \in 1..Len(clusters[k].symptoms) }
                IN  /\ Cardinality(S) >= 2
                    /\ Cardinality(S) = Len(clusters[k].symptoms)
                    /\ \E i \in 1..Len(tl) :
                          /\ tl[i].timestamp = clusters[k].timeframe[1]
                          /\ tl[i].symptom = clusters[k].symptoms[1]
                          /\ S \subseteq LabelsWithinFourHours(tl, i)
                    /\ clusters[k].frequency = Cardinality(RecurrencesOf(tl, S))
                    /\ clusters[k].frequency >= 2

\* five symptoms within four hours: the window of the second entry holds
\* four of the five, and the cluster of the five is returned with frequency 2
C16_FourOfFive ==
    /\ Returned
    /\ Len(timeline) = 5
    /\ timeline[1].timestamp = 0
    /\ timeline[5].timestamp = 16
    /\ Len(Analysis.pattern_analysis.symptom_clusters) >= 1
    /\ Len(Analysis.pattern_analysis.symptom_clusters[1].symptoms) = 5
    /\ Analysis.pattern_analysis.symptom_clusters[1].frequency = 2

(***************************************************************************)
(* Properties of _find_temporal_associations                               *)
(***************************************************************************)
\* the times symptom b was recorded after symptom a, at most 24 hours later
Followings(tl, a, b) ==
    { p \in (1..Len(tl)) \X (1..Len(tl)) :
        /\ p[1] < p[2]
        /\ lower(tl[p[1]].symptom) = a
        /\ lower(tl[p[2]].symptom) = b
        /\ tl[p[2]].timestamp - tl[p[1]].timestamp <= 96 }

RECURSIVE DelaysOf(_, _)
DelaysOf(tl, P) ==
    IF P = {} THEN <<>>
    ELSE LET p == CHOOSE q \in P : TRUE
         IN  <<tl[p[2]].timestamp - tl[p[1]].timestamp>> \o DelaysOf(tl, P \ {p})

\* 1 - stdev(d)/mean(d) > 0.3 for a positive mean, 0 > 0.3 otherwise: with
\* the sample variance ScaledDeviations / (n^2 (n - 1)) and the mean Sum / n
ConsistentDelays(d) ==
    /\ Sum(d) > 0
    /\ 100 * ScaledDeviations(d, 1) < 49 * (Len(d) - 1) * Sum(d) * Sum(d)

AssociationsFor(a, b) ==
    { k \in 1..Len(Analysis.pattern_analysis.temporal_associations) :
        Analysis.pattern_analysis.temporal_associations[k].symptom_pair
            = a \o " -> " \o b }

\* C17: every returned association is for an ordered pair of symptoms that
\* differ ignoring case, recorded at least twice with the second at most 24
\* hours after the first, with a positive average delay and a timing
\* consistency > 0.3; every such pair is returned exactly once
C17_AssociationsAreConsistentPairs ==
    Returned /\ timeline # <<>> =>
        LET tl == sorted(timeline)
            keys == { lower(tl[k].symptom) : k \in 1..Len(tl) }
            found == Analysis.pattern_analysis.temporal_associations
        IN  /\ \A k \in 1..Len(found) :
                  \E a \in keys : \E b \in keys :
                      /\ a # b
                      /\ k \in AssociationsFor(a, b)
                      /\ found[k].occurrence_count
                             = Cardinality(Followings(tl, a, b))
                      /\ found[k].average_delay_hours[1] > 0
            /\ \A a \in keys : \A b \in keys :
                  LET d == DelaysOf(tl, Followings(tl, a, b))
                  IN  Cardinality(AssociationsFor(a, b))
                          = (IF a # b /\ Len(d) >= 2 /\ ConsistentDelays(d)
                             THEN 1 ELSE 0)

\* headache four and five hours after nausea
C17_TwiceAfter ==
    /\ Returned
    /\ Len(timeline) = 3
    /\ timeline[1] = Entry(0, "Nausea", None)
    /\ timeline[2] = Entry(16, "headache", None)
    /\ timeline[3] = Entry(20, "headache", None)
    /\ Len(Analysis.pattern_analysis.temporal_associations) = 1
    /\ Analysis.pattern_analysis.temporal_associations[1].symptom_pair
           = "nausea -> headache"

(***************************************************************************)
(* Letter case in the symptom clusters                                     *)
(***************************************************************************)
\* the symptoms, letter case ignored, recorded from entry i on within 4 hours
SymptomsWithinFourHours(tl, i) ==
    { lower(l) : l \in LabelsWithinFourHours(tl, i) }

\* C18: labels that differ in letter case only are one symptom: no returned
\* cluster lists two labels that are equal ignoring case, and the frequency
\* of a cluster counts the windows that hold at least 80% of its symptoms
\* whatever the letter case of the entries' labels
C18_ClustersIgnoreCase ==
    Returned /\ timeline # <<>> =>
        LET tl == sorted(timeline)
            clusters == Analysis.pattern_analysis.symptom_clusters
        IN  \A k \in 1..Len(clusters) :
                LET listed == clusters[k].symptoms
                    S == { lower(listed[n]) : n \in 1..Len(listed) }
                IN  /\ \A m \in 1..Len(listed) : \A n \in 1..Len(listed) :
                          lower(listed[m]) = lower(listed[n]) => m = n
                    /\ clusters[k].frequency =
                          Cardinality({ i \in 1..Len(tl) :
                              5 * Cardinality(SymptomsWithinFourHours(tl, i) \cap S)
                                  >= 4 * Cardinality(S) })

(***************************************************************************)
(* Properties of _generate_timeline_recommendations                        *)
(***************************************************************************)
Categories ==
    [k \in 1..Len(Analysis.clinical_recommendations) |->
        Analysis.clinical_recommendations[k].category]

HasCategory(c) == \E k \in 1..Len(Categories) : Categories[k] = c

\* the place of a category in [emergency or urgent, monitoring, follow_up,
\* documentation]
PlaceOf(c) ==
    CASE c \in {"emergency", "urgent"} -> 1
      [] c = "monitoring" -> 2
      [] c = "follow_up" -> 3
      [] c = "documentation" -> 4
      [] OTHER -> 0

\* C19: for a non-empty timeline the categories of the recommendations, in
\* order, are a subsequence of [emergency or urgent, monitoring, follow_up,
\* documentation]; emergency is present exactly when an emergency pattern
\* exists, urgent exactly when a rapid-onset pattern and no emergency pattern
\* exists, follow_up exactly when a cyclical pattern exists, and
\* documentation appears once, as the last element
C19_CategoriesInOrder ==
    Returned /\ timeline # <<>> =>
        LET found == Analysis.pattern_analysis
        IN  /\ \A k \in 1..Len(Categories) : PlaceOf(Categories[k]) > 0
            /\ \A k \in 1..(Len(Categories) - 1) :
                  PlaceOf(Categories[k]) < PlaceOf(Categories[k + 1])
            /\ HasCategory("emergency") <=> found.emergency_indicators # <<>>
            /\ HasCategory("urgent") <=>
                  (found.rapid_onset # <<>> /\ found.emergency_indicators = <<>>)
            /\ ~(HasCategory("emergency") /\ HasCategory("urgent"))
            /\ HasCategory("follow_up") <=> found.cyclical_patterns # <<>>
            /\ Cardinality({ k \in 1..Len(Categories) :
                                Categories[k] = "documentation" }) = 1
            /\ Categories # <<>>
            /\ Categories[Len(Categories)] = "documentation"

\* emergency and rapid-onset patterns together, a worsening trend and a
\* cyclical pattern: four recommendations, the first one emergency
C19_FourCategories ==
    /\ Returned
    /\ timeline # <<>>
    /\ Analysis.pattern_analysis.rapid_onset # <<>>
    /\ Categories = <<"emergency", "monitoring", "follow_up", "documentation">>

\* C20: a monitoring recommendation (priority high, timeline "Within 24
\* hours") is present exactly when some severity trend is increasing and
\* the risk level is moderate or high; at risk level low or critical it is
\* absent whatever the trends
C20_MonitoringByRiskLevel ==
    Returned /\ timeline # <<>> =>
        LET recs == Analysis.clinical_recommendations
            level == Analysis.risk_assessment.risk_level
        IN  /\ HasCategory("monitoring") <=>
                  (IncreasingCount >= 1 /\ level \in {"moderate", "high"})
            /\ level \in {"low", "critical"} => ~HasCategory("monitoring")
            /\ \A k \in 1..Len(recs) :
                  recs[k].category = "monitoring" =>
                      /\ recs[k].priority = "high"
                      /\ recs[k].timeline = "Within 24 hours"

\* a worsening trend at critical risk: no monitoring recommendation
C20_WorseningAtCriticalRisk ==
    /\ Returned
    /\ timeline # <<>>
    /\ IncreasingCount >= 1
    /\ Analysis.risk_assessment.risk_level = "critical"
    /\ ~HasCategory("monitoring")

(***************************************************************************)
(* Order of risk_factors                                                   *)
(***************************************************************************)
\* one reason per emergency pattern, in the order of the detector's output
EmergencyReasons ==
    [k \in 1..Len(Analysis.pattern_analysis.emergency_indicators) |->
        IF Analysis.pattern_analysis.emergency_indicators[k].urgency = "critical"
        THEN "Critical emergency patterns detected"
        ELSE "High-urgency patterns detected"]

\* one reason per rapid-onset pattern
RapidOnsetReasons ==
    [k \in 1..Len(Analysis.pattern_analysis.rapid_onset) |->
        IF Analysis.pattern_analysis.rapid_onset[k].urgency_level = "high"
        THEN "Rapid onset of multiple symptoms"
        ELSE "Moderate rapid onset pattern"]

TrendReasons ==
    { ToStr(n) \o " worsening symptom trends" : n \in 1..(MaxLen + 1) }

RecentReasons ==
    { "Recent severe symptoms (8+/10)",
      "Recent moderate-severe symptoms (6-7/10)" }

\* C21: risk_factors holds the reasons of the emergency patterns, one per
\* pattern in the detector's order, then one reason per rapid-onset pattern,
\* then at most one worsening-trend reason, then at most one recent-severity
\* reason, and nothing else
C21_ReasonsInRuleOrder ==
    Returned /\ timeline # <<>> =>
        LET reasons == Analysis.risk_assessment.risk_factors
            fixed == EmergencyReasons \o RapidOnsetReasons
        IN  \E trend \in {<<>>} \cup { <<r>> : r \in TrendReasons } :
                \E recent \in {<<>>} \cup { <<r>> : r \in RecentReasons } :
                    /\ reasons = fixed \o trend \o recent
                    /\ trend # <<>> <=> IncreasingCount >= 1

\* an escalation, an emergency cluster, a rapid onset, a worsening trend and
\* a recent severe entry: five reasons, one from every rule firing
C21_FiveReasons ==
    /\ Returned
    /\ timeline # <<>>
    /\ Analysis.risk_assessment.risk_factors
           = << "High-urgency patterns detected",
                "Critical emergency patterns detected",
                "Rapid onset of multiple symptoms",
                "1 worsening symptom trends",
                "Recent severe symptoms (8+/10)" >>

(***************************************************************************)
(* The timeline handed to the detectors                                    *)
(***************************************************************************)
\* st holds the entries of tl by non-decreasing timestamp, entries of one
\* timestamp in the order they have in tl
StablySorted(tl, st) ==
    /\ Len(st) = Len(tl)
    /\ \E from \in [1..Len(tl) -> 1..Len(tl)] :
          /\ \A j, k \in 1..Len(tl) : from[j] = from[k] => j = k
          /\ \A k \in 1..Len(tl) : st[k] = tl[from[k]]
          /\ \A j, k \in 1..Len(tl) :
                j < k =>
                    /\ st[j].timestamp <= st[k].timestamp
                    /\ st[j].timestamp = st[k].timestamp => from[j] < from[k]

\* C22: the timeline handed to the detectors and to the aggregator is a
\* permutation of the input with non-decreasing timestamps in which entries
\* of identical timestamps keep their relative input order
C22_StableSort ==
    pc = "awaiting" => StablySorted(timeline, frame[1].sorted_timeline)

\* a later entry submitted first, then two entries of one timestamp
C22_TieKeptInOrder ==
    /\ pc = "awaiting"
    /\ timeline = << Entry(4, "nausea", None), Entry(2, "nausea", Some(2)),
                     Entry(2, "Shortness of Breath", Some(6)) >>
    /\ frame[1].sorted_timeline
           = << Entry(2, "nausea", Some(2)),
                Entry(2, "Shortness of Breath", Some(6)),
                Entry(4, "nausea", None) >>

(***************************************************************************)
(* Insufficient data                                                       *)
(***************************************************************************)
\* the entries of a symptom
OccurrencesOf(tl, key) == { k \in 1..Len(tl) : lower(tl[k].symptom) = key }

\* C23: insufficient data never raises and never yields a pattern: no
\* severity trend for a symptom with fewer than three entries that carry a
\* severity, no cyclical pattern for a symptom with fewer than three
\* occurrences, no temporal association for an ordered pair recorded fewer
\* than two times, no rapid-onset pattern for fewer than three entries
C23_NoPatternFromTooFewEntries ==
    /\ pc # "raised"
    /\ Returned /\ timeline # <<>> =>
          LET tl == sorted(timeline)
          IN  /\ \A key \in SymptomKeys(tl) :
                    /\ Cardinality(SeverityBearing(tl, key)) < 3
                           => TrendsOf(key) = {}
                    /\ Cardinality(OccurrencesOf(tl, key)) < 3
                           => CyclesOf(key) = {}
              /\ \A a \in SymptomKeys(tl) : \A b \in SymptomKeys(tl) :
                    Cardinality(Followings(tl, a, b)) < 2
                        => AssociationsFor(a, b) = {}
              /\ Len(tl) < 3 => Analysis.pattern_analysis.rapid_onset = <<>>

\* two entries of one symptom, both with a severity and within the hour:
\* too few for every detector that needs a minimum
C23_TwoEntriesNoPattern ==
    /\ Returned
    /\ Len(timeline) = 2
    /\ timeline[1] = Entry(0, "nausea", Some(2))
    /\ timeline[2] = Entry(2, "nausea", Some(6))
    /\ Analysis.pattern_analysis.severity_trends = <<>>
    /\ Analysis.pattern_analysis.cyclical_patterns = <<>>
    /\ Analysis.pattern_analysis.temporal_associations = <<>>
    /\ Analysis.pattern_analysis.rapid_onset = <<>>

(***************************************************************************)
(* Degenerate denominators                                                 *)
(***************************************************************************)
\* C24: a symptom whose entries with a severity all share one timestamp
\* has a trend of slope 0, direction stable and correlation 0; a group of
\* equal severities has correlation 0; a pair of symptoms whose recorded
\* delays are all 0 is not returned; no call ends in an exception
C24_SentinelsForDegenerateCases ==
    /\ pc # "raised"
    /\ Returned /\ timeline # <<>> =>
          LET tl == sorted(timeline)
              trends == Analysis.pattern_analysis.severity_trends
          IN  /\ \A key \in SymptomKeys(tl) :
                    LET G == SeverityBearing(tl, key)
                    IN  Cardinality(G) >= 3 =>
                          /\ Cardinality(TrendsOf(key)) = 1
                          /\ \A k \in TrendsOf(key) :
                                /\ trends[k].slope[2] # 0
                                /\ trends[k].correlation_coefficient[2] # 0
                                /\ trends[k].correlation_coefficient[3] # 0
                                /\ (\A i, j \in G : tl[i].timestamp = tl[j].timestamp)
                                      => /\ trends[k].slope[1] = 0
                                         /\ trends[k].trend_direction = "stable"
                                         /\ trends[k].correlation_coefficient[1] = 0
                                /\ (\A i, j \in G : tl[i].severity = tl[j].severity)
                                      => trends[k].correlation_coefficient[1] = 0
              /\ \A a \in SymptomKeys(tl) : \A b \in SymptomKeys(tl) :
                    LET P == Followings(tl, a, b)
                    IN  (\A p \in P : tl[p[1]].timestamp = tl[p[2]].timestamp)
                            => AssociationsFor(a, b) = {}

\* three entries of one symptom at one timestamp with severities 2, 6, 2:
\* a stable trend of slope 0
C24_ThreeAtOneTimestamp ==
    /\ Returned
    /\ Len(timeline) = 3
    /\ \A k \in 1..3 : timeline[k].timestamp = 0 /\ timeline[k].symptom = "nausea"
    /\ timeline[1].severity = Some(2)
    /\ timeline[2].severity = Some(6)
    /\ timeline[3].severity = Some(2)
    /\ Len(Analysis.pattern_analysis.severity_trends) = 1
    /\ Analysis.pattern_analysis.severity_trends[1].trend_direction = "stable"
    /\ Analysis.pattern_analysis.severity_trends[1].slope[1] = 0

(***************************************************************************)
(* The caller's list                                                       *)
(***************************************************************************)
\* C25: analyze_comprehensive_timeline leaves its input unchanged: no step
\* of a call changes the caller's list, its order or a field of an entry,
\* whatever the order of the input
C25_InputUnchanged == [][pc # "done" => timeline' = timeline]_vars

\* a call has returned on a list submitted latest entry first
C25_UnsortedAfterCall ==
    /\ Returned
    /\ prev = None
    /\ timeline = << Entry(4, "nausea", None), Entry(2, "nausea", Some(2)),
                     Entry(0, "Chest Pain", Some(9)) >>
    /\ Analysis.timeline_metadata.total_entries = 3

(***************************************************************************)
(* Two calls on the shared instance                                        *)
(***************************************************************************)
ResultsAgree(a, b) ==
    /\ a.pattern_analysis = b.pattern_analysis
    /\ a.risk_assessment = b.risk_assessment
    /\ a.clinical_recommendations = b.clinical_recommendations

OtherReturned == other # None /\ other[1].pc = "done"

\* C26: two calls on timeline_analyzer interleaved at the narrative request
\* each get the pattern_analysis, risk_assessment and
\* clinical_recommendations that the call on the same input got when it ran
\* alone
C26_InterleavedCallsAgreeWithAlone ==
    /\ other # None => other[1].pc # "raised"
    /\ CalledTwice /\ other # None /\ timeline = Earlier.timeline
           => ResultsAgree(Analysis, Earlier.report)
    /\ OtherReturned /\ other[1].timeline = Earlier.timeline
           => ResultsAgree(other[1].report[1], Earlier.report)

\* both interleaved calls have returned, on different orders of the entries
\* and with different patterns
C26_BothReturned ==
    /\ CalledTwice
    /\ OtherReturned
    /\ timeline = Earlier.timeline
    /\ other[1].timeline # timeline
    /\ other[1].report[1].pattern_analysis # Analysis.pattern_analysis

(***************************************************************************)
(* A co-occurrence that happens once                                       *)
(***************************************************************************)
\* C27: when every symptom label appears exactly once in the timeline, no
\* cluster is returned, however many symptoms lie within a 4-hour window
C27_NoClusterFromOneCoOccurrence ==
    /\ Returned /\ timeline # <<>>
    /\ \A j, k \in 1..Len(timeline) :
          lower(timeline[j].symptom) = lower(timeline[k].symptom) => j = k
    => Analysis.pattern_analysis.symptom_clusters = <<>>

(***************************************************************************)
(* Properties of _call_specialized_model                                   *)
(***************************************************************************)
\* the primary model first, then the backups in configured order, each only
\* after every model before it has failed; after the last failure the error
\* "All specialized models failed"
CalledInConfiguredOrder ==
    /\ Len(calls) <= 1 + Len(timeline_model_config.backup)
    /\ \A k \in 1..Len(calls) :
          /\ calls[k].model = (IF k = 1 THEN timeline_model_config.primary
                               ELSE timeline_model_config.backup[k - 1])
          /\ k < Len(calls) => calls[k].outcome = "failed"
    /\ Returned /\ timeline # <<>> =>
          /\ calls[Len(calls)].outcome \in {"failed", "responded"}
          /\ AllFailed(calls) =>
                /\ Len(calls) = 1 + Len(timeline_model_config.backup)
                /\ Analysis.ai_analysis.ai_insights.error
                       = "All specialized models failed"

\* C28: _call_specialized_model ends after a bounded number of model calls:
\* the primary is called first, each backup only after every model before it
\* has failed and in configured order, no model after one has responded, and
\* when all have failed the call ends with "All specialized models failed"
C28_CallsEndInOrder ==
    /\ []CalledInConfiguredOrder
    /\ <>(pc \in {"done", "raised"})

\* the second backup responded after the primary and the first backup failed
C28_SecondBackupResponded ==
    /\ Returned
    /\ Len(calls) = 3
    /\ calls[1].outcome = "failed"
    /\ calls[2].outcome = "failed"
    /\ calls[3] = [model |-> "microsoft/wizardlm-2-8x22b:free",
                   outcome |-> "responded"]

(***************************************************************************)
(* The emergency recommendation and the risk assessment                    *)
(***************************************************************************)
\* C29: for a non-empty timeline, whenever the recommendations hold the
\* category emergency (priority critical, timeline "Immediately"), the risk
\* assessment requires immediate attention and its level is high or critical
C29_EmergencyMeansUrgentRisk ==
    Returned /\ timeline # <<>> /\ HasCategory("emergency") =>
        /\ Analysis.risk_assessment.immediate_attention_required
        /\ Analysis.risk_assessment.risk_level \in {"high", "critical"}

(***************************************************************************)
(* The narrative of a model that responded                                 *)
(***************************************************************************)
MarkedFallback(insights) ==
    "fallback" \in DOMAIN insights /\ insights.fallback

\* C30: for a non-empty timeline, when a model call of the narrative request
\* has returned a response the narrative is built from it and is not marked
\* fallback; the fallback payload is produced only when every model call
\* has failed
C30_ResponseGivesNarrative ==
    Returned /\ timeline # <<>> =>
        /\ Responded(calls) => ~MarkedFallback(Analysis.ai_analysis.ai_insights)
        /\ MarkedFallback(Analysis.ai_analysis.ai_insights) => AllFailed(calls)

====
